---- MODULE Spec2Model ----
(***************************************************************************)
(* Model of the email body normalisation and response-budget code of       *)
(* jmap-mcp (internal/server): TruncateBody, PrepareBody, extractBody and  *)
(* the email_get handler.                                                  *)
(*                                                                         *)
(* A Go string is modelled as a sequence of one-character strings, so      *)
(* len(s) is Len(s), s[:k] is SubSeq(s, 1, k) and a + b is a \o b.         *)
(* Go indexes from 0, TLA+ from 1: the Go index i is position i + 1.       *)
(***************************************************************************)
EXTENDS Integers, Sequences, FiniteSets, TLC

\* ------------------------------------------------------------------------
\* Bounds of the model (not program constants)
\* ------------------------------------------------------------------------

\* longest run of "a" padding in a generated text
MaxPad == 30

\* longest generated head (every string over {"a", "\n"} up to this length)
MaxHead == 3

\* largest limit handed to TruncateBody / PrepareBody
MaxLimit == 36

\* ------------------------------------------------------------------------
\* Program constants
\* ------------------------------------------------------------------------

DefaultMaxBodyChars == 4000

truncationMarker ==
    << "\n", "\n", "[", ".", ".", ".", " ", "b", "o", "d", "y", " ",
       "t", "r", "u", "n", "c", "a", "t", "e", "d", " ", ".", ".", ".", "]" >>

\* ------------------------------------------------------------------------
\* String helpers (Go strings package)
\* ------------------------------------------------------------------------

SetMax(S) == CHOOSE m \in S : \A x \in S : x <= m

\* s[:k]
Prefix(s, k) == SubSeq(s, 1, k)

\* strings.LastIndex(s, "\n"): Go index of the last line break, -1 if none
LastIndexNL(s) ==
    LET hits == { i \in 1..Len(s) : s[i] = "\n" }
    IN  IF hits = {} THEN -1 ELSE SetMax(hits) - 1

\* strings.HasSuffix(s, suf)
HasSuffix(s, suf) ==
    /\ Len(s) >= Len(suf)
    /\ SubSeq(s, Len(s) - Len(suf) + 1, Len(s)) = suf

\* strings.HasPrefix(s, pre)
HasPrefix(s, pre) ==
    /\ Len(s) >= Len(pre)
    /\ SubSeq(s, 1, Len(pre)) = pre

\* n copies of the character c
Repeat(c, n) == [ i \in 1..n |-> c ]

\* ------------------------------------------------------------------------
\* TruncateBody
\* ------------------------------------------------------------------------

\* Variant: the marker's length is not reserved from the limit.
TruncateBodyRun_NoReserve(text, limit) ==
    IF Len(text) <= limit
    THEN [ result |-> text, slice |-> -1, cut |-> -1 ]
    ELSE LET budget == limit
         IN  IF budget <= 0
             THEN [ result |-> truncationMarker, slice |-> -1, cut |-> -1 ]
             ELSE LET idx == LastIndexNL(Prefix(text, budget))
                      cut == IF idx <= 0 THEN budget ELSE idx
                  IN  [ result |-> Prefix(text, cut) \o truncationMarker,
                        slice  |-> budget,
                        cut    |-> cut ]

\* Variant: a text as long as the limit is truncated too.
TruncateBodyRun_StrictLess(text, limit) ==
    IF Len(text) < limit
    THEN [ result |-> text, slice |-> -1, cut |-> -1 ]
    ELSE LET budget == limit - Len(truncationMarker)
         IN  IF budget <= 0
             THEN [ result |-> truncationMarker, slice |-> -1, cut |-> -1 ]
             ELSE LET idx == LastIndexNL(Prefix(text, budget))
                      cut == IF idx <= 0 THEN budget ELSE idx
                  IN  [ result |-> Prefix(text, cut) \o truncationMarker,
                        slice  |-> budget,
                        cut    |-> cut ]

\* Variant: a hard cut (no line break to cut at) leaves the marker out.
TruncateBodyRun_HardCutNoMarker(text, limit) ==
    IF Len(text) <= limit
    THEN [ result |-> text, slice |-> -1, cut |-> -1 ]
    ELSE LET budget == limit - Len(truncationMarker)
         IN  IF budget <= 0
             THEN [ result |-> truncationMarker, slice |-> -1, cut |-> -1 ]
             ELSE LET idx == LastIndexNL(Prefix(text, budget))
                      cut == IF idx <= 0 THEN budget ELSE idx
                  IN  [ result |-> IF idx <= 0 THEN Prefix(text, cut)
                                   ELSE Prefix(text, cut) \o truncationMarker,
                        slice  |-> budget,
                        cut    |-> cut ]

\* Variant: only a negative budget takes the marker-only path.
TruncateBodyRun_BudgetNegOnly(text, limit) ==
    IF Len(text) <= limit
    THEN [ result |-> text, slice |-> -1, cut |-> -1 ]
    ELSE LET budget == limit - Len(truncationMarker)
         IN  IF budget < 0
             THEN [ result |-> truncationMarker, slice |-> -1, cut |-> -1 ]
             ELSE LET idx == LastIndexNL(Prefix(text, budget))
                      cut == IF idx <= 0 THEN budget ELSE idx
                  IN  [ result |-> Prefix(text, cut) \o truncationMarker,
                        slice  |-> budget,
                        cut    |-> cut ]

\* Variant: the cut is made after the line break, which is kept.
TruncateBodyRun_KeepsBreak(text, limit) ==
    IF Len(text) <= limit
    THEN [ result |-> text, slice |-> -1, cut |-> -1 ]
    ELSE LET budget == limit - Len(truncationMarker)
         IN  IF budget <= 0
             THEN [ result |-> truncationMarker, slice |-> -1, cut |-> -1 ]
             ELSE LET idx == LastIndexNL(Prefix(text, budget))
                      cut == IF idx <= 0 THEN budget ELSE idx + 1
                  IN  [ result |-> Prefix(text, cut) \o truncationMarker,
                        slice  |-> budget,
                        cut    |-> cut ]

\* The run of TruncateBody(text, limit): the returned string, and the upper
\* bound of the slice text[:bound] it took (-1 when it took no slice).
TruncateBodyRun(text, limit) ==
    IF Len(text) <= limit
    THEN [ result |-> text, slice |-> -1, cut |-> -1 ]
    ELSE LET budget == limit - Len(truncationMarker)
         IN  IF budget <= 0
             THEN [ result |-> truncationMarker, slice |-> -1, cut |-> -1 ]
             ELSE LET idx == LastIndexNL(Prefix(text, budget))
                      cut == IF idx <= 0 THEN budget ELSE idx
                  IN  [ result |-> Prefix(text, cut) \o truncationMarker,
                        slice  |-> budget,
                        cut    |-> cut ]

TruncateBody(text, limit) == TruncateBodyRun(text, limit).result

\* ------------------------------------------------------------------------
\* PrepareBody
\* ------------------------------------------------------------------------

\* erp.Parse of github.com/web-ridge/email-reply-parser, an external
\* library: the visible part of a plain-text mail.  Modelled by its
\* contract on the model's alphabet: trailing quoted lines (lines that
\* begin with ">") and trailing line breaks are removed, everything before
\* them is kept verbatim.
RECURSIVE erpParse(_)
erpParse(text) ==
    IF text = << >> THEN << >>
    ELSE LET idx      == LastIndexNL(text)
             lastLine == SubSeq(text, idx + 2, Len(text))
         IN  IF lastLine = << >>
             THEN erpParse(Prefix(text, idx))
             ELSE IF lastLine[1] = ">"
                  THEN erpParse(Prefix(text, IF idx < 0 THEN 0 ELSE idx))
                  ELSE text

\* Variant: a maxChars that is not positive means no limit.
PrepareBody_ZeroUnlimited(text, maxChars) ==
    IF maxChars <= 0 THEN erpParse(text) ELSE TruncateBody(erpParse(text), maxChars)

\* PrepareBody: the default limit for a maxChars that is not positive,
\* erp.Parse, then TruncateBody
PrepareBody(text, maxChars) ==
    LET effective == IF maxChars <= 0 THEN DefaultMaxBodyChars ELSE maxChars
        stripped  == erpParse(text)
    IN  TruncateBody(stripped, effective)

\* ------------------------------------------------------------------------
\* StripBlockquotes and html2text
\*
\* HTML markup is a sequence whose elements are tags ("<p>", "</p>", ...),
\* character references ("&gt;", ...) and text characters.  A node of the
\* parsed tree is a record [tag, data, kids]; a text node has tag "#text".
\* ------------------------------------------------------------------------

Txt(data)     == [ tag |-> "#text", data |-> data, kids |-> << >> ]
El(tag, kids) == [ tag |-> tag, data |-> << >>, kids |-> kids ]

RECURSIVE FlattenSeq(_)
FlattenSeq(ss) ==
    IF ss = << >> THEN << >> ELSE Head(ss) \o FlattenSeq(Tail(ss))

\* the element names of the markup
TagNames == { "html", "head", "body", "div", "p", "blockquote" }

StartTag(name) == "<" \o name \o ">"
EndTag(name)   == "</" \o name \o ">"

IsStartTag(t) == \E name \in TagNames : t = StartTag(name)
IsEndTag(t)   == \E name \in TagNames : t = EndTag(name)
TagNameOf(t)  == CHOOSE name \in TagNames : t = StartTag(name)

\* html.EscapeString, applied by html.Render to the data of a text node
EscapeChar(c) ==
    IF c = "&" THEN "&amp;"
    ELSE IF c = "<" THEN "&lt;"
    ELSE IF c = ">" THEN "&gt;"
    ELSE c

\* the tokenizer's reading of a character reference in text
UnescapeChar(t) ==
    IF t = "&amp;" THEN "&"
    ELSE IF t = "&lt;" THEN "<"
    ELSE IF t = "&gt;" THEN ">"
    ELSE t

\* html.Render of one node
RECURSIVE RenderNode(_)
RenderNode(n) ==
    IF n.tag = "#text" THEN [ i \in 1..Len(n.data) |-> EscapeChar(n.data[i]) ]
    ELSE IF n.tag = "#document"
         THEN FlattenSeq([ i \in 1..Len(n.kids) |-> RenderNode(n.kids[i]) ])
         ELSE << StartTag(n.tag) >>
              \o FlattenSeq([ i \in 1..Len(n.kids) |-> RenderNode(n.kids[i]) ])
              \o << EndTag(n.tag) >>

RenderForest(f) == FlattenSeq([ i \in 1..Len(f) |-> RenderNode(f[i]) ])

\* The fragments whose markup the model feeds to the HTML path.
HtmlForests ==
    { << >>,
      << Txt(<< "a", "a" >>) >>,
      << El("p", << Txt(<< "a" >>) >>) >>,
      << El("blockquote", << Txt(<< "b" >>) >>) >>,
      << El("p", << Txt(<< "a" >>) >>),
         El("blockquote", << El("p", << Txt(<< "b" >>) >>) >>),
         El("p", << Txt(<< "a", "a" >>) >>) >>,
      << El("div", << Txt(<< "a" >>),
                      El("blockquote", << Txt(<< "b" >>),
                                          El("blockquote", << Txt(<< "b" >>) >>) >>) >>),
         El("blockquote", << Txt(<< "b" >>) >>),
         El("blockquote", << >>),
         El("p", << Txt(<< ">" >>) >>) >> }

\* index of the first token at or after i that is a tag, Len(ts) + 1 if none
RECURSIVE TextEnd(_, _)
TextEnd(ts, i) ==
    IF i > Len(ts) \/ IsStartTag(ts[i]) \/ IsEndTag(ts[i]) THEN i
    ELSE TextEnd(ts, i + 1)

\* The nodes read from token i up to the end tag that closes their parent
\* (or the end of the input): a start tag opens an element that its end tag
\* or the end of the input closes, adjacent text becomes one text node.
RECURSIVE ParseNodes(_, _)
ParseNodes(ts, i) ==
    IF i > Len(ts) \/ IsEndTag(ts[i]) THEN [ kids |-> << >>, next |-> i ]
    ELSE IF IsStartTag(ts[i])
    THEN LET inner == ParseNodes(ts, i + 1)
             after == IF inner.next <= Len(ts) THEN inner.next + 1 ELSE inner.next
             rest  == ParseNodes(ts, after)
         IN  [ kids |-> << El(TagNameOf(ts[i]), inner.kids) >> \o rest.kids,
               next |-> rest.next ]
    ELSE LET j    == TextEnd(ts, i)
             rest == ParseNodes(ts, j)
         IN  [ kids |-> << Txt([ k \in 1..(j - i) |-> UnescapeChar(ts[i + k - 1]) ]) >>
                          \o rest.kids,
               next |-> rest.next ]

\* the elements with the given tag among the nodes
ElementsOf(nodes, tag) == SelectSeq(nodes, LAMBDA c : c.tag = tag)

\* html.Parse (golang.org/x/net/html, external) on well-nested markup: the
\* document always gets an html element with a head and a body; the nodes
\* of a fragment go to the body, the parts of a complete document that the
\* markup leaves out are created empty.
DocumentOf(inDoc) ==
    LET heads == ElementsOf(inDoc, "head")
        bods  == ElementsOf(inDoc, "body")
        head  == IF heads # << >> THEN heads[1] ELSE El("head", << >>)
        body  == IF bods # << >> THEN bods[1]
                 ELSE El("body", SelectSeq(inDoc, LAMBDA c : c.tag # "head"))
    IN  El("#document", << El("html", << head, body >>) >>)

DocumentOfTop(top) ==
    DocumentOf(IF ElementsOf(top, "html") # << >>
               THEN ElementsOf(top, "html")[1].kids ELSE top)

htmlParse(rawHTML) == DocumentOfTop(ParseNodes(rawHTML, 1).kids)

\* index of the first blockquote element among the nodes, 0 if none
FirstBlockquote(kids) ==
    LET hits == { i \in 1..Len(kids) : kids[i].tag = "blockquote" }
    IN  IF hits = {} THEN 0 ELSE CHOOSE i \in hits : \A j \in hits : i <= j

\* Variant: the next sibling is read after RemoveChild has cleared it, so
\* the loop over the children of n ends at the first blockquote it removes.
RECURSIVE removeBlockquotes_NextAfterRemove(_)
removeBlockquotes_NextAfterRemove(n) ==
    LET b == FirstBlockquote(n.kids)
    IN  IF b = 0
        THEN [ n EXCEPT !.kids = [ i \in 1..Len(n.kids) |->
                                     removeBlockquotes_NextAfterRemove(n.kids[i]) ] ]
        ELSE [ n EXCEPT !.kids =
                 [ i \in 1..(b - 1) |-> removeBlockquotes_NextAfterRemove(n.kids[i]) ]
                 \o SubSeq(n.kids, b + 1, Len(n.kids)) ]

\* removeBlockquotes: the children of n that are blockquote elements are
\* removed, the others are walked in turn.
RECURSIVE removeBlockquotes(_)
removeBlockquotes(n) ==
    LET kept == SelectSeq(n.kids, LAMBDA c : c.tag # "blockquote")
    IN  [ n EXCEPT !.kids = [ i \in 1..Len(kept) |-> removeBlockquotes(kept[i]) ] ]

\* the node reached from n by the child indices of path
RECURSIVE NodeAt(_, _)
NodeAt(n, path) ==
    IF path = << >> THEN n ELSE NodeAt(n.kids[Head(path)], Tail(path))

\* the least of the indices, 0 (nil) if there is none
FirstOf(indices) ==
    IF indices = {} THEN 0 ELSE CHOOSE i \in indices : \A j \in indices : i <= j

\* n.FirstChild, after RemoveChild has detached the nodes of removed
FirstChild(doc, removed, n) ==
    FirstOf({ i \in 1..Len(NodeAt(doc, n).kids) : (n \o << i >>) \notin removed })

\* c.NextSibling for the child c of n: RemoveChild sets the field of a
\* detached node to nil
NextSibling(doc, removed, n, c) ==
    IF (n \o << c >>) \in removed
    THEN 0
    ELSE FirstOf({ i \in (c + 1)..Len(NodeAt(doc, n).kids) :
                     (n \o << i >>) \notin removed })

\* Variant: the next sibling is read after the blockquote has been removed.
LoopPass_NextAfterRemove(doc, removed, n, c) ==
    LET isBlockquote == NodeAt(doc, n \o << c >>).tag = "blockquote"
        after        == IF isBlockquote THEN removed \cup { n \o << c >> } ELSE removed
    IN  [ next    |-> NextSibling(doc, after, n, c),
          removed |-> after,
          descend |-> ~isBlockquote ]

\* one pass of the loop of removeBlockquotes for the child c of n: next is
\* read first, then a blockquote element is removed, any other node is
\* walked
LoopPass(doc, removed, n, c) ==
    LET isBlockquote == NodeAt(doc, n \o << c >>).tag = "blockquote"
    IN  [ next    |-> NextSibling(doc, removed, n, c),
          removed |-> IF isBlockquote THEN removed \cup { n \o << c >> } ELSE removed,
          descend |-> ~isBlockquote ]

\* the activation of removeBlockquotes(n) at its first loop test
Activation(doc, removed, n) ==
    [ n |-> n, c |-> FirstChild(doc, removed, n), next |-> 0 ]

\* what html.Parse and html.Render report: neither fails
NoFailure == [ parseErr |-> FALSE, renderErr |-> FALSE ]

\* what html.Render has written to buf when it stops with an error: the
\* document's html start tag
PartialRender(doc) == << StartTag("html") >>

\* Variant: the buffer is returned whether or not html.Render failed.
RenderStripped_ReturnsBuffer(rawHTML, doc, stripped, env) ==
    IF env.renderErr
    THEN [ parsed |-> doc, stripped |-> stripped,
           failed |-> "render", result |-> PartialRender(stripped) ]
    ELSE [ parsed |-> doc, stripped |-> stripped,
           failed |-> "none", result |-> RenderNode(stripped) ]

\* Variant: only the children of the body element are rendered.
RenderStripped_BodyOnly(rawHTML, doc, stripped, env) ==
    IF env.renderErr
    THEN [ parsed |-> doc, stripped |-> stripped,
           failed |-> "render", result |-> rawHTML ]
    ELSE [ parsed |-> doc, stripped |-> stripped,
           failed |-> "none",
           result |-> RenderForest(stripped.kids[1].kids[2].kids) ]

\* the end of StripBlockquotes: html.Render of the stripped document into a
\* buffer; the buffer is returned unless html.Render failed
RenderStripped(rawHTML, doc, stripped, env) ==
    IF env.renderErr
    THEN [ parsed |-> doc, stripped |-> stripped,
           failed |-> "render", result |-> rawHTML ]
    ELSE [ parsed |-> doc, stripped |-> stripped,
           failed |-> "none", result |-> RenderNode(stripped) ]

\* StripBlockquotes after html.Parse has given doc
StripParsed(rawHTML, doc, env) ==
    RenderStripped(rawHTML, doc, removeBlockquotes(doc), env)

\* The run of StripBlockquotes(rawHTML): the parsed document, the document
\* after removeBlockquotes, the step that failed and the returned string.
StripBlockquotesRun(rawHTML, env) ==
    IF env.parseErr
    THEN [ parsed |-> El("#document", << >>), stripped |-> El("#document", << >>),
           failed |-> "parse", result |-> rawHTML ]
    ELSE StripParsed(rawHTML, htmlParse(rawHTML), env)

StripBlockquotes(rawHTML) == StripBlockquotesRun(rawHTML, NoFailure).result

\* html2text.HTML2Text (github.com/k3a/html2text, external): tags are
\* dropped, the end of a block element becomes a line break, a character
\* reference becomes its character, text is kept.
BlockEndTags == { "</p>", "</div>", "</blockquote>" }

RECURSIVE HTML2Text(_)
HTML2Text(markup) ==
    IF markup = << >> THEN << >>
    ELSE LET t == Head(markup)
         IN  (IF t \in BlockEndTags THEN << "\n" >>
              ELSE IF IsStartTag(t) \/ IsEndTag(t) THEN << >>
              ELSE << UnescapeChar(t) >>) \o HTML2Text(Tail(markup))

\* ------------------------------------------------------------------------
\* extractBody
\* ------------------------------------------------------------------------

\* A body value is held as (head, pad, tail); its Value is the string
\* head, then pad times "a", then tail.
BodyValue(head, pad, tail) == [ head |-> head, pad |-> pad, tail |-> tail ]

ValueOf(bv) == bv.head \o Repeat("a", bv.pad) \o bv.tail

\* index of the first part of parts whose PartID has a body value, 0 if none
FirstWithValue(parts, bodyValues) ==
    LET hits == { i \in 1..Len(parts) : parts[i] \in DOMAIN bodyValues }
    IN  IF hits = {} THEN 0 ELSE CHOOSE i \in hits : \A j \in hits : i <= j

\* Variant: the HTML body is looked at before the plain-text body.
extractBodyRun_HtmlFirst(e) ==
    LET t == FirstWithValue(e.TextBody, e.BodyValues)
        h == FirstWithValue(e.HTMLBody, e.BodyValues)
    IN  IF h # 0
        THEN [ body   |-> PrepareBody(
                            HTML2Text(StripBlockquotes(
                                ValueOf(e.BodyValues[e.HTMLBody[h]]))), 0),
               stages |-> << "StripBlockquotes", "HTML2Text", "PrepareBody" >> ]
        ELSE IF t # 0
             THEN [ body   |-> PrepareBody(ValueOf(e.BodyValues[e.TextBody[t]]), 0),
                    stages |-> << "PrepareBody" >> ]
             ELSE [ body |-> << >>, stages |-> << >> ]

\* The run of extractBody(e): the returned string and the stages it went
\* through, in order.
extractBodyRun(e) ==
    LET t == FirstWithValue(e.TextBody, e.BodyValues)
        h == FirstWithValue(e.HTMLBody, e.BodyValues)
    IN  IF t # 0
        THEN [ body   |-> PrepareBody(ValueOf(e.BodyValues[e.TextBody[t]]), 0),
               stages |-> << "PrepareBody" >> ]
        ELSE IF h # 0
             THEN [ body   |-> PrepareBody(
                                 HTML2Text(StripBlockquotes(
                                     ValueOf(e.BodyValues[e.HTMLBody[h]]))), 0),
                    stages |-> << "StripBlockquotes", "HTML2Text", "PrepareBody" >> ]
             ELSE [ body |-> << >>, stages |-> << >> ]

extractBody(e) == extractBodyRun(e).body

\* ------------------------------------------------------------------------
\* email_get: rendering helpers
\* ------------------------------------------------------------------------

defaultMaxChars == 50000

Digits == << "0", "1", "2", "3", "4", "5", "6", "7", "8", "9" >>

\* fmt "%d" of an integer
RECURSIVE Itoa(_)
Itoa(n) ==
    IF n < 0 THEN << "-" >> \o Itoa(0 - n)
    ELSE IF n < 10 THEN << Digits[n + 1] >>
    ELSE Itoa(n \div 10) \o << Digits[(n % 10) + 1] >>

IsSpace(c) == c \in { " ", "\n" }

\* strings.TrimSpace
RECURSIVE TrimSpace(_)
TrimSpace(s) ==
    IF s = << >> THEN s
    ELSE IF IsSpace(s[1]) THEN TrimSpace(Tail(s))
    ELSE IF IsSpace(s[Len(s)]) THEN TrimSpace(Prefix(s, Len(s) - 1))
    ELSE s

\* formatAddresses: strings.Join(parts, ", "), an address being modelled by
\* the string its String method gives
RECURSIVE formatAddresses(_)
formatAddresses(addrs) ==
    IF addrs = << >> THEN << >>
    ELSE IF Len(addrs) = 1 THEN addrs[1]
    ELSE addrs[1] \o << ",", " " >> \o formatAddresses(Tail(addrs))

RECURSIVE HeaderLines(_)
HeaderLines(hs) ==
    IF hs = << >> THEN << >>
    ELSE Head(hs).Name \o << ":", " " >> \o TrimSpace(Head(hs).Value) \o << "\n" >>
         \o HeaderLines(Tail(hs))

\* The header block of the email at Go index i (hdr of the loop body)
RenderHeader(i, e, fullHeaders) ==
    (IF i > 0 THEN << "\n", "-", "-", "-", "\n", "\n" >> ELSE << >>)
    \o (IF fullHeaders /\ Len(e.Headers) > 0
        THEN HeaderLines(e.Headers)
        ELSE << "I", "D", ":", " " >> \o e.ID \o << "\n" >>
             \o << "S", "u", "b", "j", "e", "c", "t", ":", " " >> \o e.Subject \o << "\n" >>
             \o (IF Len(e.From) > 0
                 THEN << "F", "r", "o", "m", ":", " " >> \o formatAddresses(e.From) \o << "\n" >>
                 ELSE << >>)
             \o (IF Len(e.To) > 0
                 THEN << "T", "o", ":", " " >> \o formatAddresses(e.To) \o << "\n" >>
                 ELSE << >>)
             \o (IF Len(e.CC) > 0
                 THEN << "C", "C", ":", " " >> \o formatAddresses(e.CC) \o << "\n" >>
                 ELSE << >>)
             \o (IF e.ReceivedAt # << >>
                 THEN << "D", "a", "t", "e", ":", " " >> \o e.ReceivedAt \o << "\n" >>
                 ELSE << >>))
    \o << "\n" >>

noBodyContent ==
    << "(", "n", "o", " ", "b", "o", "d", "y", " ", "c", "o", "n", "t", "e",
       "n", "t", ")" >>

\* body of the loop: extractBody, then the placeholder for an empty body
ItemBodyRun(e) ==
    LET r == extractBodyRun(e)
    IN  IF r.body = << >> THEN [ r EXCEPT !.body = noBodyContent ] ELSE r

ItemBody(e) == ItemBodyRun(e).body

\* the advisory written when the loop breaks
Advisory(omitted, total, maxChars) ==
    << "\n", "\n", "-", "-", "-", " ", "T", "R", "U", "N", "C", "A", "T",
       "E", "D", ":", " " >>
    \o Itoa(omitted)
    \o << " ", "o", "f", " " >>
    \o Itoa(total)
    \o << " ", "e", "m", "a", "i", "l", "s", " ", "o", "m", "i", "t", "t", "e",
          "d", " ", "(", "r", "e", "s", "p", "o", "n", "s", "e", " ", "w",
          "o", "u", "l", "d", " ", "e", "x", "c", "e", "e", "d", " " >>
    \o Itoa(maxChars)
    \o << " ", "c", "h", "a", "r", "s", ")", ".", " ", "F", "e", "t", "c", "h",
          " ", "f", "e", "w", "e", "r", " ", "e", "m", "a", "i", "l", "s",
          " ", "p", "e", "r", " ", "c", "a", "l", "l", ".", " ", "-", "-",
          "-", "\n" >>

\* Variant: a max_chars of 0 is kept.
EffectiveMaxChars_ZeroKept(inMaxChars) ==
    IF inMaxChars < 0 THEN defaultMaxChars ELSE inMaxChars

\* maxChars of the handler: in.MaxChars, or the default when non-positive
EffectiveMaxChars(inMaxChars) ==
    IF inMaxChars <= 0 THEN defaultMaxChars ELSE inMaxChars

\* Variant: the omitted count is taken from the loop index, one too few.
LoopBody_OmittedOffByOne(list, fullHeaders, maxChars, i, sb, included) ==
    LET e         == list[i + 1]
        hdr       == RenderHeader(i, e, fullHeaders)
        run       == ItemBodyRun(e)
        body      == run.body
        remaining == maxChars - Len(sb) - Len(hdr)
        locals    == [ item |-> i, remaining |-> remaining, hdr |-> hdr,
                       body |-> body, stages |-> run.stages,
                       written |-> << >>, broke |-> FALSE ]
    IN  IF remaining <= 0
        THEN LET omitted == Len(list) - i - 1
             IN  [ sb       |-> sb \o Advisory(omitted, Len(list), maxChars),
                   included |-> included,
                   omitted  |-> omitted,
                   locals   |-> [ locals EXCEPT !.broke = TRUE ] ]
        ELSE LET written == TruncateBody(body, remaining)
             IN  [ sb       |-> sb \o hdr \o written,
                   included |-> included + 1,
                   omitted  |-> -1,
                   locals   |-> [ locals EXCEPT !.written = written ] ]

\* Variant: the advisory is written but the loop goes on (no break).
LoopBody_NoBreak(list, fullHeaders, maxChars, i, sb, included) ==
    LET e         == list[i + 1]
        hdr       == RenderHeader(i, e, fullHeaders)
        run       == ItemBodyRun(e)
        body      == run.body
        remaining == maxChars - Len(sb) - Len(hdr)
        locals    == [ item |-> i, remaining |-> remaining, hdr |-> hdr,
                       body |-> body, stages |-> run.stages,
                       written |-> << >>, broke |-> FALSE ]
    IN  IF remaining <= 0
        THEN LET omitted == Len(list) - included
             IN  [ sb       |-> sb \o Advisory(omitted, Len(list), maxChars),
                   included |-> included,
                   omitted  |-> omitted,
                   locals   |-> locals ]
        ELSE LET written == TruncateBody(body, remaining)
             IN  [ sb       |-> sb \o hdr \o written,
                   included |-> included + 1,
                   omitted  |-> -1,
                   locals   |-> [ locals EXCEPT !.written = written ] ]

\* Variant: an email is omitted only when remaining is below zero.
LoopBody_StrictlyNegative(list, fullHeaders, maxChars, i, sb, included) ==
    LET e         == list[i + 1]
        hdr       == RenderHeader(i, e, fullHeaders)
        run       == ItemBodyRun(e)
        body      == run.body
        remaining == maxChars - Len(sb) - Len(hdr)
        locals    == [ item |-> i, remaining |-> remaining, hdr |-> hdr,
                       body |-> body, stages |-> run.stages,
                       written |-> << >>, broke |-> FALSE ]
    IN  IF remaining < 0
        THEN LET omitted == Len(list) - included
             IN  [ sb       |-> sb \o Advisory(omitted, Len(list), maxChars),
                   included |-> included,
                   omitted  |-> omitted,
                   locals   |-> [ locals EXCEPT !.broke = TRUE ] ]
        ELSE LET written == TruncateBody(body, remaining)
             IN  [ sb       |-> sb \o hdr \o written,
                   included |-> included + 1,
                   omitted  |-> -1,
                   locals   |-> [ locals EXCEPT !.written = written ] ]

\* Variant: the advisory is written after the last email too, with a count
\* of 0.
LoopBody_AdvisoryAfterLast(list, fullHeaders, maxChars, i, sb, included) ==
    LET e         == list[i + 1]
        hdr       == RenderHeader(i, e, fullHeaders)
        run       == ItemBodyRun(e)
        body      == run.body
        remaining == maxChars - Len(sb) - Len(hdr)
        locals    == [ item |-> i, remaining |-> remaining, hdr |-> hdr,
                       body |-> body, stages |-> run.stages,
                       written |-> << >>, broke |-> FALSE ]
    IN  IF remaining <= 0
        THEN LET omitted == Len(list) - included
             IN  [ sb       |-> sb \o Advisory(omitted, Len(list), maxChars),
                   included |-> included,
                   omitted  |-> omitted,
                   locals   |-> [ locals EXCEPT !.broke = TRUE ] ]
        ELSE LET written == TruncateBody(body, remaining)
             IN  [ sb       |-> IF i + 1 = Len(list)
                                THEN sb \o hdr \o written
                                        \o Advisory(0, Len(list), maxChars)
                                ELSE sb \o hdr \o written,
                   included |-> included + 1,
                   omitted  |-> -1,
                   locals   |-> [ locals EXCEPT !.written = written ] ]

\* One pass of the loop body for the email at Go index i: sb and included
\* after it, the local omitted (-1 when not computed), whether the loop
\* broke, and the locals of the pass.
LoopBody(list, fullHeaders, maxChars, i, sb, included) ==
    LET e         == list[i + 1]
        hdr       == RenderHeader(i, e, fullHeaders)
        run       == ItemBodyRun(e)
        body      == run.body
        remaining == maxChars - Len(sb) - Len(hdr)
        locals    == [ item |-> i, remaining |-> remaining, hdr |-> hdr,
                       body |-> body, stages |-> run.stages,
                       written |-> << >>, broke |-> FALSE ]
    IN  IF remaining <= 0
        THEN LET omitted == Len(list) - included
             IN  [ sb       |-> sb \o Advisory(omitted, Len(list), maxChars),
                   included |-> included,
                   omitted  |-> omitted,
                   locals   |-> [ locals EXCEPT !.broke = TRUE ] ]
        ELSE LET written == TruncateBody(body, remaining)
             IN  [ sb       |-> sb \o hdr \o written,
                   included |-> included + 1,
                   omitted  |-> -1,
                   locals   |-> [ locals EXCEPT !.written = written ] ]

\* The loop from the email at Go index i on, run to its end: what sb,
\* included and omitted are when the handler returns.
RECURSIVE RunLoop(_, _, _, _, _, _)
RunLoop(list, fullHeaders, maxChars, i, sb, included) ==
    IF i >= Len(list)
    THEN [ sb |-> sb, included |-> included, omitted |-> -1 ]
    ELSE LET r == LoopBody(list, fullHeaders, maxChars, i, sb, included)
         IN  IF r.locals.broke
             THEN [ sb |-> r.sb, included |-> r.included, omitted |-> r.omitted ]
             ELSE RunLoop(list, fullHeaders, maxChars, i + 1, r.sb, r.included)

\* textResult / errorResult
textResult(text) == [ IsError |-> FALSE, Text |-> text ]
errorResult(err) == [ IsError |-> TRUE, Text |-> err ]

\* ------------------------------------------------------------------------
\* Token resolution and client creation
\* ------------------------------------------------------------------------

\* a request context without a token
Background == [ jmapToken |-> "" ]

\* ContextWithToken and TokenFromContext: the token is a value of the
\* context it was stored in
ContextWithToken(ctx, token) == [ ctx EXCEPT !.jmapToken = token ]
TokenFromContext(ctx) == ctx.jmapToken

\* Variant: the static token is preferred over the token of the context.
resolveToken_StaticFirst(ctxToken, staticToken) ==
    IF staticToken # "" THEN [ token |-> staticToken, err |-> "nil" ]
    ELSE IF ctxToken # "" THEN [ token |-> ctxToken, err |-> "nil" ]
    ELSE [ token |-> "", err |-> "no JMAP auth token available" ]

\* resolveToken: the context's token, else the static token, else an error
resolveToken(ctxToken, staticToken) ==
    IF ctxToken # "" THEN [ token |-> ctxToken, err |-> "nil" ]
    ELSE IF staticToken # "" THEN [ token |-> staticToken, err |-> "nil" ]
    ELSE [ token |-> "", err |-> "no JMAP auth token available" ]

\* jmapClient: no client is created without a token; Authenticate may fail
jmapClient(env) ==
    LET r == resolveToken(env.ctxToken, env.staticToken)
    IN  IF r.err # "nil" THEN [ client |-> "nil", token |-> "", err |-> r.err ]
        ELSE IF ~env.authOK
             THEN [ client |-> "nil", token |-> r.token, err |-> "jmap session" ]
             ELSE [ client |-> "client", token |-> r.token, err |-> "nil" ]

\* ------------------------------------------------------------------------
\* Server construction and the tool handlers
\*
\* A handler is an operator of the tool's input and of what the request
\* meets (tokens, session, accounts, the answers of the JMAP server to its
\* first and second request); it yields the returned tool result and the
\* method calls it sent, in order.
\* ------------------------------------------------------------------------

\* the tools registerTools adds whatever the options are
BaseTools ==
    { "mailbox_get", "mailbox_set", "email_query", "email_get", "email_create",
      "email_move", "email_flag", "email_delete", "identity_get" }

SieveTools == { "sieve_get", "sieve_set", "sieve_validate" }

ToolNames == BaseTools \cup { "email_submission_set" } \cup SieveTools

\* Variant: email_submission_set is added like every other tool.
registerTools_SendAlways(s) ==
    BaseTools \cup { "email_submission_set" } \cup SieveTools

\* registerTools: the tools of the server s
registerTools(s) ==
    BaseTools
    \cup (IF s.enableSend THEN { "email_submission_set" } ELSE {})
    \cup SieveTools

\* LoadConfig: the flags of the command line; -enable-send is off unless given
LoadConfig(args) == [ EnableSend |-> "-enable-send" \in args ]

\* WithSieve: the option that asks for the Sieve tools
WithSieve(s) == [ s EXCEPT !.enableSieve = TRUE ]

\* NewServer: the server for a configuration and options
NewServer(cfg, sieveOption) ==
    LET s0 == [ enableSend |-> cfg.EnableSend, enableSieve |-> FALSE ]
        s  == IF sieveOption THEN WithSieve(s0) ELSE s0
    IN  [ enableSend |-> s.enableSend, enableSieve |-> s.enableSieve,
          tools |-> registerTools(s) ]

\* a response of the JMAP server to one method call
Rsp(type) ==
    [ type |-> type, NotFound |-> << >>, List |-> << >>, Roles |-> {},
      Created |-> {}, NotCreated |-> {}, NotUpdated |-> {}, NotDestroyed |-> {},
      Error |-> FALSE ]

\* what a handler hands back: the result and the method calls it sent
Handled(result, sent) == [ result |-> result, sent |-> sent ]

\* the result of the set handlers that list per-object errors: IsError with
\* the text written so far
setErrorsResult(text) == [ IsError |-> TRUE, Text |-> text ]

\* jmapClient and the lookup of the primary account: "nil" or the error
clientError(env, accountID, missing) ==
    LET c == jmapClient(env)
    IN  IF c.err # "nil" THEN c.err
        ELSE IF accountID = "" THEN missing
        ELSE "nil"

\* client.Do and the check for an empty response: "nil" or the error
doError(doOK, responses) ==
    IF ~doOK THEN "request failed"
    ELSE IF Len(responses) = 0 THEN "empty response"
    ELSE "nil"

\* the two last cases of the switch on a response's type
otherResponse(args, sent) ==
    IF args.type = "MethodError" THEN Handled(errorResult("method error"), sent)
    ELSE Handled(errorResult("unexpected response type"), sent)

handleMailboxGet(in, env) ==
    LET ce   == clientError(env, env.accountID, "no primary mail account")
        sent == << "Mailbox/get" >>
        de   == doError(env.doOK, env.responses)
    IN  IF ce # "nil" THEN Handled(errorResult(ce), << >>)
        ELSE IF de # "nil" THEN Handled(errorResult(de), sent)
        ELSE LET args == env.responses[1]
             IN  IF args.type = "mailbox.GetResponse"
                 THEN IF Len(args.NotFound) > 0
                      THEN Handled(errorResult("mailboxes not found"), sent)
                      ELSE Handled(textResult("mailboxes"), sent)
                 ELSE otherResponse(args, sent)

handleMailboxSet(in, env) ==
    LET ce   == clientError(env, env.accountID, "no primary mail account")
        sent == << "Mailbox/set" >>
        de   == doError(env.doOK, env.responses)
    IN  IF in.Create = {} /\ in.Update = {} /\ in.Destroy = {}
        THEN Handled(errorResult("at least one of create, update, or destroy"), << >>)
        ELSE IF ce # "nil" THEN Handled(errorResult(ce), << >>)
        ELSE IF de # "nil" THEN Handled(errorResult(de), sent)
        ELSE LET args == env.responses[1]
             IN  IF args.type = "mailbox.SetResponse"
                 THEN IF args.NotCreated \cup args.NotUpdated \cup args.NotDestroyed # {}
                      THEN Handled(setErrorsResult("mailbox changes and errors"), sent)
                      ELSE Handled(textResult("mailbox changes"), sent)
                 ELSE otherResponse(args, sent)

handleIdentityGet(in, env) ==
    LET ce   == clientError(env, env.accountID, "no primary mail account")
        sent == << "Identity/get" >>
        de   == doError(env.doOK, env.responses)
    IN  IF ce # "nil" THEN Handled(errorResult(ce), << >>)
        ELSE IF de # "nil" THEN Handled(errorResult(de), sent)
        ELSE LET args == env.responses[1]
             IN  IF args.type = "identity.GetResponse"
                 THEN IF Len(args.NotFound) > 0
                      THEN Handled(errorResult("identities not found"), sent)
                      ELSE Handled(textResult("identities"), sent)
                 ELSE otherResponse(args, sent)

IsDigit(c) == c \in { "0", "1", "2", "3", "4", "5", "6", "7", "8", "9" }

\* time.Parse(time.RFC3339, s) succeeds (dates in UTC, whole seconds)
IsRFC3339(s) ==
    /\ Len(s) = 20
    /\ s[5] = "-" /\ s[8] = "-" /\ s[11] = "T" /\ s[14] = ":" /\ s[17] = ":"
    /\ s[20] = "Z"
    /\ \A i \in (1..19) \ { 5, 8, 11, 14, 17 } : IsDigit(s[i])

\* parseDate: a bare date gets the time suffix, then the string is parsed
parseDate(s, timeSuffix) ==
    LET full == IF Len(s) = 10 /\ s[5] = "-" /\ s[8] = "-" THEN s \o timeSuffix ELSE s
    IN  IF IsRFC3339(full) THEN [ t |-> full, err |-> "nil" ]
        ELSE [ t |-> << >>, err |-> "invalid date format" ]

EndOfDay   == << "T", "2", "3", ":", "5", "9", ":", "5", "9", "Z" >>
StartOfDay == << "T", "0", "0", ":", "0", "0", ":", "0", "0", "Z" >>

handleEmailQuery(in, env) ==
    LET ce   == clientError(env, env.accountID, "no primary mail account")
        sent == << "Email/query", "Email/get" >>
        de   == doError(env.doOK, env.responses)
    IN  IF ce # "nil" THEN Handled(errorResult(ce), << >>)
        ELSE IF in.Before # << >> /\ parseDate(in.Before, EndOfDay).err # "nil"
        THEN Handled(errorResult("invalid date format"), << >>)
        ELSE IF in.After # << >> /\ parseDate(in.After, StartOfDay).err # "nil"
        THEN Handled(errorResult("invalid date format"), << >>)
        ELSE IF de # "nil" THEN Handled(errorResult(de), sent)
        ELSE IF env.responses[1].type # "email.QueryResponse"
        THEN otherResponse(env.responses[1], sent)
        ELSE IF Len(env.responses) < 2
        THEN Handled(errorResult("missing Email/get response in query chain"), sent)
        ELSE IF env.responses[2].type = "GetResponse"
        THEN Handled(textResult("matches"), sent)
        ELSE otherResponse(env.responses[2], sent)

\* findMailboxByRole: the handler's first request; the ID of the mailbox
\* with the role, or the error
findMailboxByRole(env, role) ==
    LET de == doError(env.doOK, env.responses)
    IN  IF de # "nil" THEN [ id |-> "", err |-> de ]
        ELSE LET args == env.responses[1]
             IN  IF args.type = "mailbox.GetResponse"
                 THEN IF role \in args.Roles
                      THEN [ id |-> role, err |-> "nil" ]
                      ELSE [ id |-> "", err |-> "no mailbox with role found" ]
                 ELSE IF args.type = "MethodError"
                 THEN [ id |-> "", err |-> "method error" ]
                 ELSE [ id |-> "", err |-> "unexpected response type" ]

handleEmailCreate(in, env) ==
    LET ce     == clientError(env, env.accountID, "no primary mail account")
        drafts == findMailboxByRole(env, "drafts")
        sent   == << "Mailbox/get", "Email/set create" >>
        de     == doError(env.do2OK, env.responses2)
    IN  IF ce # "nil" THEN Handled(errorResult(ce), << >>)
        ELSE IF drafts.err # "nil" THEN Handled(errorResult(drafts.err), << "Mailbox/get" >>)
        ELSE IF de # "nil" THEN Handled(errorResult(de), sent)
        ELSE LET args == env.responses2[1]
             IN  IF args.type = "email.SetResponse"
                 THEN IF "draft" \in args.NotCreated
                      THEN Handled(errorResult("draft creation failed"), sent)
                      ELSE Handled(textResult("Created draft"), sent)
                 ELSE otherResponse(args, sent)

handleEmailMove(in, env) ==
    LET ce   == clientError(env, env.accountID, "no primary mail account")
        sent == << "Email/set update" >>
        de   == doError(env.doOK, env.responses)
    IN  IF Len(in.EmailIDs) = 0
        THEN Handled(errorResult("email_ids is required"), << >>)
        ELSE IF ce # "nil" THEN Handled(errorResult(ce), << >>)
        ELSE IF de # "nil" THEN Handled(errorResult(de), sent)
        ELSE LET args == env.responses[1]
             IN  IF args.type = "email.SetResponse"
                 THEN IF args.NotUpdated # {}
                      THEN Handled(errorResult("move failed"), sent)
                      ELSE Handled(textResult("Moved"), sent)
                 ELSE otherResponse(args, sent)

\* applyKeyword on the four flags: the patch has an entry per flag given
flagPatch(in) == { k \in { "seen", "flagged", "answered", "draft" } : in.Flags[k] # "nil" }

handleEmailFlag(in, env) ==
    LET ce   == clientError(env, env.accountID, "no primary mail account")
        sent == << "Email/set update" >>
        de   == doError(env.doOK, env.responses)
    IN  IF Len(in.EmailIDs) = 0
        THEN Handled(errorResult("email_ids is required"), << >>)
        ELSE IF flagPatch(in) = {}
        THEN Handled(errorResult("at least one flag must be provided"), << >>)
        ELSE IF ce # "nil" THEN Handled(errorResult(ce), << >>)
        ELSE IF de # "nil" THEN Handled(errorResult(de), sent)
        ELSE LET args == env.responses[1]
             IN  IF args.type = "email.SetResponse"
                 THEN IF args.NotUpdated # {}
                      THEN Handled(errorResult("flag update failed"), sent)
                      ELSE Handled(textResult("Updated flags"), sent)
                 ELSE otherResponse(args, sent)

\* Variant: the emails are destroyed whether or not permanent is set.
handleEmailDelete_AlwaysDestroys(in, env) ==
    LET ce == clientError(env, env.accountID, "no primary mail account")
        de == doError(env.doOK, env.responses)
    IN  IF Len(in.EmailIDs) = 0
        THEN Handled(errorResult("email_ids is required"), << >>)
        ELSE IF ce # "nil" THEN Handled(errorResult(ce), << >>)
        ELSE IF de # "nil" THEN Handled(errorResult(de), << "Email/set destroy" >>)
        ELSE Handled(textResult("Permanently destroyed"), << "Email/set destroy" >>)

\* email_delete: permanent destroys the emails with one request; otherwise
\* the Trash mailbox is looked up and the emails are updated
handleEmailDelete(in, env) ==
    LET ce    == clientError(env, env.accountID, "no primary mail account")
        de    == doError(env.doOK, env.responses)
        trash == findMailboxByRole(env, "trash")
        de2   == doError(env.do2OK, env.responses2)
    IN  IF Len(in.EmailIDs) = 0
        THEN Handled(errorResult("email_ids is required"), << >>)
        ELSE IF ce # "nil" THEN Handled(errorResult(ce), << >>)
        ELSE IF in.Permanent
        THEN LET sent == << "Email/set destroy" >>
             IN  IF de # "nil" THEN Handled(errorResult(de), sent)
                 ELSE LET args == env.responses[1]
                      IN  IF args.type = "email.SetResponse"
                          THEN IF args.NotDestroyed # {}
                               THEN Handled(errorResult("destroy failed"), sent)
                               ELSE Handled(textResult("Permanently destroyed"), sent)
                          ELSE otherResponse(args, sent)
        ELSE LET sent == << "Mailbox/get", "Email/set update" >>
             IN  IF trash.err # "nil"
                 THEN Handled(errorResult(trash.err), << "Mailbox/get" >>)
                 ELSE IF de2 # "nil" THEN Handled(errorResult(de2), sent)
                 ELSE LET args == env.responses2[1]
                      IN  IF args.type = "email.SetResponse"
                          THEN IF args.NotUpdated # {}
                               THEN Handled(errorResult("trash failed"), sent)
                               ELSE Handled(textResult("Moved to Trash"), sent)
                          ELSE otherResponse(args, sent)

\* Variant: the submission is sent without a Sent mailbox.
handleEmailSubmissionSet_NoSentCheck(in, env) ==
    LET ce       == clientError(env, env.accountID, "no primary mail account")
        discover == << "Mailbox/get", "Identity/get" >>
        sent     == discover \o << "EmailSubmission/set" >>
    IN  IF in.EmailID = "" THEN Handled(errorResult("email_id is required"), << >>)
        ELSE IF ce # "nil" THEN Handled(errorResult(ce), << >>)
        ELSE IF ~env.doOK THEN Handled(errorResult("request failed"), discover)
        ELSE IF Len(env.responses) < 2
        THEN Handled(errorResult("expected 2 discovery responses"), discover)
        ELSE IF env.responses[1].type # "mailbox.GetResponse"
        THEN otherResponse(env.responses[1], discover)
        ELSE IF "drafts" \notin env.responses[1].Roles
        THEN Handled(errorResult("no Drafts mailbox found"), discover)
        ELSE IF env.responses[2].type # "identity.GetResponse"
        THEN otherResponse(env.responses[2], discover)
        ELSE IF in.IdentityID = "" /\ Len(env.responses[2].List) = 0
        THEN Handled(errorResult("no sender identities available"), discover)
        ELSE Handled(textResult("submitted for delivery"), sent)

\* email_submission_set: the discovery request is the first request, the
\* submission the second; of the submission's responses only the first,
\* that of EmailSubmission/set, is read
handleEmailSubmissionSet(in, env) ==
    LET ce       == clientError(env, env.accountID, "no primary mail account")
        discover == << "Mailbox/get", "Identity/get" >>
        sent     == discover \o << "EmailSubmission/set" >>
        de       == doError(env.do2OK, env.responses2)
    IN  IF in.EmailID = ""
        THEN Handled(errorResult("email_id is required"), << >>)
        ELSE IF ce # "nil" THEN Handled(errorResult(ce), << >>)
        ELSE IF ~env.doOK THEN Handled(errorResult("request failed"), discover)
        ELSE IF Len(env.responses) < 2
        THEN Handled(errorResult("expected 2 discovery responses"), discover)
        ELSE IF env.responses[1].type # "mailbox.GetResponse"
        THEN otherResponse(env.responses[1], discover)
        ELSE IF "drafts" \notin env.responses[1].Roles
        THEN Handled(errorResult("no Drafts mailbox found"), discover)
        ELSE IF "sent" \notin env.responses[1].Roles
        THEN Handled(errorResult("no Sent mailbox found"), discover)
        ELSE IF env.responses[2].type # "identity.GetResponse"
        THEN otherResponse(env.responses[2], discover)
        ELSE IF in.IdentityID = "" /\ Len(env.responses[2].List) = 0
        THEN Handled(errorResult("no sender identities available"), discover)
        ELSE IF de # "nil" THEN Handled(errorResult(de), sent)
        ELSE LET args == env.responses2[1]
             IN  IF args.type = "emailsubmission.SetResponse"
                 THEN IF "send" \in args.NotCreated
                      THEN Handled(errorResult("submission failed"), sent)
                      ELSE Handled(textResult("submitted for delivery"), sent)
                 ELSE otherResponse(args, sent)

\* sieveAccountID and jmapClient: "nil" or the error
sieveClientError(env) ==
    clientError(env, env.sieveAccountID, "Sieve capability not available")

handleSieveGet(in, env) ==
    LET ce   == sieveClientError(env)
        sent == << "SieveScript/get" >>
        de   == doError(env.doOK, env.responses)
    IN  IF ce # "nil" THEN Handled(errorResult(ce), << >>)
        ELSE IF de # "nil" THEN Handled(errorResult(de), sent)
        ELSE LET args == env.responses[1]
             IN  IF args.type = "sievescript.GetResponse"
                 THEN IF Len(args.NotFound) > 0
                      THEN Handled(errorResult("sieve scripts not found"), sent)
                      ELSE IF in.ID = "" THEN Handled(textResult("scripts"), sent)
                      ELSE IF Len(args.List) = 0
                      THEN Handled(errorResult("sieve script not found"), sent)
                      ELSE IF ~env.downloadOK
                      THEN Handled(errorResult("download sieve script"),
                                   sent \o << "download" >>)
                      ELSE IF ~env.readOK
                      THEN Handled(errorResult("read sieve script"),
                                   sent \o << "download" >>)
                      ELSE Handled(textResult("script"), sent \o << "download" >>)
                 ELSE otherResponse(args, sent)

handleSieveSet(in, env) ==
    LET isCreate  == in.ID = "" /\ (in.Name # "" \/ in.Content # "")
        isUpdate  == in.ID # ""
        isDestroy == in.Destroy # {}
        ce        == sieveClientError(env)
        upload    == IF in.Content # "" THEN << "upload" >> ELSE << >>
        sent      == upload \o << "SieveScript/set" >>
        de        == doError(env.doOK, env.responses)
    IN  IF ~isCreate /\ ~isUpdate /\ ~isDestroy
        THEN Handled(errorResult("provide name+content, id, or destroy list"), << >>)
        ELSE IF ce # "nil" THEN Handled(errorResult(ce), << >>)
        ELSE IF in.Content # "" /\ ~env.uploadOK
        THEN Handled(errorResult("upload sieve script"), upload)
        ELSE IF isCreate /\ in.Content = ""
        THEN Handled(errorResult("content is required for create"), upload)
        ELSE IF de # "nil" THEN Handled(errorResult(de), sent)
        ELSE LET args == env.responses[1]
             IN  IF args.type = "sievescript.SetResponse"
                 THEN IF args.NotCreated \cup args.NotUpdated \cup args.NotDestroyed # {}
                      THEN Handled(setErrorsResult("script changes and errors"), sent)
                      ELSE Handled(textResult("script changes"), sent)
                 ELSE otherResponse(args, sent)

handleSieveValidate(in, env) ==
    LET ce   == sieveClientError(env)
        sent == << "upload", "SieveScript/validate" >>
        de   == doError(env.doOK, env.responses)
    IN  IF ce # "nil" THEN Handled(errorResult(ce), << >>)
        ELSE IF ~env.uploadOK THEN Handled(errorResult("upload sieve script"), << "upload" >>)
        ELSE IF de # "nil" THEN Handled(errorResult(de), sent)
        ELSE LET args == env.responses[1]
             IN  IF args.type = "sievescript.ValidateResponse"
                 THEN IF args.Error
                      THEN Handled(textResult("Validation failed"), sent)
                      ELSE Handled(textResult("Sieve script is valid."), sent)
                 ELSE otherResponse(args, sent)

\* ------------------------------------------------------------------------
\* State
\* ------------------------------------------------------------------------

VARIABLES
    tbPc,       \* position of the caller of the pure functions: "idle" | "call" | "done"
    tbFn,       \* the function that was applied: "none" | "TruncateBody" | "PrepareBody"
    tbText,     \* argument text
    tbLimit,    \* argument limit / maxChars
    tbRun,      \* the run of the applied function (result, slice bounds)
    tbAgain,    \* the second application of TruncateBody, to the result: limit, run
    egPc,       \* position in handleEmailGet: "idle" | "begin" | "loop" | "return" | "done"
    egIn,       \* the EmailGetInput
    egEnv,      \* what the request context and the JMAP server answer
    egList,     \* args.List
    egMaxChars, \* maxChars
    egSb,       \* sb
    egIncluded, \* included
    egI,        \* Go index of the next email of the loop
    egOmitted,  \* omitted, -1 while not computed
    egLast,     \* locals of the last pass of the loop body
    egResult,   \* the returned *mcp.CallToolResult and error
    sqPc,       \* position of the caller of StripBlockquotes: "idle" | "call" | "done"
    sqRaw,      \* argument rawHTML
    sqEnv,      \* whether html.Parse and html.Render report an error
    sqRun,      \* the run of StripBlockquotes (documents, failed step, result)
    ccReq,      \* per concurrent email_get call: context, input, the server's answer
    ccStatic,   \* s.token, the static token of the server
    ccPc,       \* per call: position in handleEmailGet
    ccClient,   \* per call: what jmapClient returned
    ccMaxChars, \* per call: maxChars
    ccSb,       \* per call: sb
    ccIncluded, \* per call: included
    ccI,        \* per call: Go index of the next email of the loop
    ccResult,   \* per call: the returned *mcp.CallToolResult and error
    svPc,       \* the server process: "idle" | "start" | "serving"
    svArgs,     \* the flags of the command line
    svSieve,    \* whether the WithSieve option is given to NewServer
    svServer,   \* the Server: enableSend, enableSieve and the registered tools
    svLast,     \* the last tool call: tool, input, what it met, result, requests
    svSubmitted, \* whether an EmailSubmission/set request has been sent
    wkPc,       \* position of the caller of removeBlockquotes: "idle" | "call" | "loop" | "done"
    wkDoc,      \* the parsed document, as html.Parse returned it
    wkRemoved,  \* the nodes RemoveChild has detached, each named by its path in wkDoc
    wkStack,    \* the activations of removeBlockquotes: n, c and next of each
    wkVisits,   \* the nodes the loops have had as c, in order
    mwPc,       \* position of the HTTP request in TokenMiddleware: "idle" | "request" | "done"
    mwReq,      \* the request: jmap_token of the query, the Authorization header
    mwNext      \* the contexts of the requests next.ServeHTTP was called with, in order

tbVars == << tbPc, tbFn, tbText, tbLimit, tbRun, tbAgain >>

egVars == << egPc, egIn, egEnv, egList, egMaxChars, egSb, egIncluded, egI,
             egOmitted, egLast, egResult >>

sqVars == << sqPc, sqRaw, sqEnv, sqRun >>

ccVars == << ccReq, ccStatic, ccPc, ccClient, ccMaxChars, ccSb, ccIncluded, ccI,
             ccResult >>

svVars == << svPc, svArgs, svSieve, svServer, svLast, svSubmitted >>

wkVars == << wkPc, wkDoc, wkRemoved, wkStack, wkVisits >>

mwVars == << mwPc, mwReq, mwNext >>

vars == << tbPc, tbFn, tbText, tbLimit, tbRun, tbAgain,
           egPc, egIn, egEnv, egList, egMaxChars, egSb, egIncluded, egI,
           egOmitted, egLast, egResult,
           sqPc, sqRaw, sqEnv, sqRun,
           ccReq, ccStatic, ccPc, ccClient, ccMaxChars, ccSb, ccIncluded, ccI,
           ccResult,
           svPc, svArgs, svSieve, svServer, svLast, svSubmitted,
           wkPc, wkDoc, wkRemoved, wkStack, wkVisits,
           mwPc, mwReq, mwNext >>

\* the variables of the other parts of the program, for each part
othersThanTb == << egVars, sqVars, ccVars, svVars, wkVars, mwVars >>
othersThanEg == << tbVars, sqVars, ccVars, svVars, wkVars, mwVars >>
othersThanSq == << tbVars, egVars, ccVars, svVars, wkVars, mwVars >>
othersThanCc == << tbVars, egVars, sqVars, svVars, wkVars, mwVars >>
othersThanSv == << tbVars, egVars, sqVars, ccVars, wkVars, mwVars >>
othersThanWk == << tbVars, egVars, sqVars, ccVars, svVars, mwVars >>
othersThanMw == << tbVars, egVars, sqVars, ccVars, svVars, wkVars >>

\* ------------------------------------------------------------------------
\* Inputs of the pure functions
\* ------------------------------------------------------------------------

\* every string over {"a", "\n"} of length n
RECURSIVE Strings(_)
Strings(n) ==
    IF n = 0 THEN { << >> }
    ELSE { s \o << c >> : s \in Strings(n - 1), c \in { "a", "\n" } }

Heads == UNION { Strings(n) : n \in 0..MaxHead }

\* tails: nothing, a trailing quoted line, a trailing line break
Tails == { << >>, << "\n", ">", "a" >>, << "\n" >> }

Texts == { h \o Repeat("a", k) \o t : h \in Heads, k \in 0..MaxPad, t \in Tails }

\* texts around the default single-body cap
LongTexts ==
    { h \o Repeat("a", k) \o t :
        h \in Strings(0) \cup Strings(1),
        k \in { DefaultMaxBodyChars - 3, DefaultMaxBodyChars + 1 },
        t \in Tails }

Limits == (-1)..MaxLimit

NoRun == [ result |-> << >>, slice |-> -1, cut |-> -1 ]

\* most characters by which a second limit exceeds the marker's length
MaxSecond == 3

\* the limits of a second application of TruncateBody, after a first one
\* with limit a: the same, one less, none, and the marker's length and above
SecondLimits(a) ==
    { a, a - 1, 0 } \cup { Len(truncationMarker) + k : k \in 0..MaxSecond }

NoAgain == [ limit |-> 0, run |-> NoRun ]

TbIdle ==
    /\ tbPc = "idle"
    /\ tbFn = "none"
    /\ tbText = << >>
    /\ tbLimit = 0
    /\ tbRun = NoRun
    /\ tbAgain = NoAgain

\* ------------------------------------------------------------------------
\* Inputs of email_get
\* ------------------------------------------------------------------------

NoEnv  == [ ctxToken |-> "", staticToken |-> "", authOK |-> FALSE,
            accountID |-> "", doOK |-> FALSE, responses |-> << >> ]
NoIn   == [ EmailIDs |-> << >>, FullHeaders |-> FALSE, MaxChars |-> 0 ]
NoLast == [ item |-> -1, remaining |-> 0, hdr |-> << >>, body |-> << >>,
            stages |-> << >>, written |-> << >>, broke |-> FALSE ]
NoResult == [ IsError |-> FALSE, Text |-> << >>, err |-> "none" ]

EgIdle ==
    /\ egPc = "idle"
    /\ egIn = NoIn
    /\ egEnv = NoEnv
    /\ egList = << >>
    /\ egMaxChars = 0
    /\ egSb = << >>
    /\ egIncluded = 0
    /\ egI = 0
    /\ egOmitted = -1
    /\ egLast = NoLast
    /\ egResult = NoResult

Email(id, subject, from, to, cc, receivedAt, headers, textBody, htmlBody, bodyValues) ==
    [ ID |-> id, Subject |-> subject, From |-> from, To |-> to, CC |-> cc,
      ReceivedAt |-> receivedAt, Headers |-> headers,
      TextBody |-> textBody, HTMLBody |-> htmlBody, BodyValues |-> bodyValues ]

SampleDate ==
    << "2", "0", "2", "4", "-", "0", "1", "-", "0", "1", "T", "1", "0", ":",
       "0", "0", ":", "0", "0", "Z" >>

NoValues == [ x \in {} |-> << >> ]

SampleHtml ==
    RenderForest(
      << El("p", << Txt(<< "a" >>) >>),
         El("blockquote", << El("p", << Txt(<< "b" >>) >>) >>),
         El("p", << Txt(<< "a", "a" >>) >>) >>)

\* The emails the JMAP server may return in a response of several emails.
SampleEmails ==
    { \* plain body, the shortest header
      Email(<< "m" >>, << >>, << >>, << >>, << >>, << >>, << >>,
            << "1" >>, << >>, ("1" :> BodyValue(<< >>, 2, << >>))),
      \* plain body with a line break and a trailing quoted line; raw headers
      Email(<< "m" >>, << "s" >>, << << "f" >> >>, << >>, << >>, SampleDate,
            << [ Name |-> << "X" >>, Value |-> << " ", "v", "\n" >> ] >>,
            << "1" >>, << "2" >>,
            ("1" :> BodyValue(<< "a", "a", "a", "a", "\n" >>, 35, << "\n", ">", "a" >>)
             @@ "2" :> BodyValue(SampleHtml, 0, << >>))),
      \* a text part without a value, an HTML body
      Email(<< "m" >>, << >>, << >>, << >>, << >>, << >>, << >>,
            << "1" >>, << "2" >>, ("2" :> BodyValue(SampleHtml, 0, << >>))),
      \* a plain body without a line break; two recipients
      Email(<< "m" >>, << >>, << >>, << << "t" >>, << "u" >> >>, << << "c" >> >>,
            << >>, << >>,
            << "0", "1" >>, << >>, ("1" :> BodyValue(<< >>, 30, << >>))) }

\* The emails that only come alone: bodies that end up empty.
EdgeEmails ==
    { \* no body value at all
      Email(<< "m" >>, << "s" >>, << >>, << >>, << >>, << >>, << >>,
            << "1" >>, << "2" >>, NoValues),
      \* an empty plain body and an HTML body
      Email(<< "m" >>, << >>, << >>, << >>, << >>, << >>, << >>,
            << "1" >>, << "2" >>,
            ("1" :> BodyValue(<< >>, 0, << >>) @@ "2" :> BodyValue(SampleHtml, 0, << >>))),
      \* an HTML body that is one quoted reply
      Email(<< "m" >>, << >>, << >>, << >>, << >>, << >>, << >>,
            << >>, << "2" >>,
            ("2" :> BodyValue(RenderForest(<< El("blockquote", << Txt(<< "b" >>) >>) >>),
                              0, << >>))) }

\* most emails of one response
MaxEmails == 3

EmailLists ==
    [ 1..1 -> EdgeEmails ] \cup UNION { [ 1..n -> SampleEmails ] : n \in 1..MaxEmails }

\* largest max_chars of the small requests
MaxBudget == 100

Budgets == (-1)..MaxBudget

\* the request of the scenario: emails with long bodies
ScenarioEmails == 3
ScenarioBodyLen == 20000

ScenarioList ==
    [ k \in 1..ScenarioEmails |->
        Email(<< "m" >>, << "s" >>, << >>, << >>, << >>, << >>, << >>,
              << "1" >>, << >>, ("1" :> BodyValue(<< >>, ScenarioBodyLen, << >>))) ]

GetResponse(notFound, list) ==
    [ type |-> "GetResponse", NotFound |-> notFound, List |-> list ]

IDsOf(list) == [ k \in 1..Len(list) |-> list[k].ID ]

OkEnv(list) ==
    [ ctxToken |-> "", staticToken |-> "t", authOK |-> TRUE,
      accountID |-> "acc", doOK |-> TRUE,
      responses |-> << GetResponse(<< >>, list) >> ]

\* the other answers: a token in the context, and every failure
OtherEnvs ==
    LET ok == OkEnv(<< CHOOSE e \in SampleEmails : TRUE >>)
    IN  { [ ok EXCEPT !.staticToken = "" ],
          [ ok EXCEPT !.staticToken = "", !.ctxToken = "c" ],
          [ ok EXCEPT !.authOK = FALSE ],
          [ ok EXCEPT !.accountID = "" ],
          [ ok EXCEPT !.doOK = FALSE ],
          [ ok EXCEPT !.responses = << >> ],
          [ ok EXCEPT !.responses = << [ type |-> "MethodError" ] >> ],
          [ ok EXCEPT !.responses = << [ type |-> "other" ] >> ],
          [ ok EXCEPT !.responses = << GetResponse(<< << "m" >> >>, << >>) >> ],
          [ ok EXCEPT !.responses = << GetResponse(<< >>, << >>) >> ] }

\* ------------------------------------------------------------------------
\* Inputs of StripBlockquotes
\* ------------------------------------------------------------------------

\* deepest nesting of the generated markup
MaxNest == 3

\* a text inside up to n nested div and blockquote elements
RECURSIVE Nested(_)
Nested(n) ==
    IF n = 0 THEN { Txt(<< "b" >>) }
    ELSE Nested(n - 1)
         \cup { El(t, << Txt(<< "a" >>), c >>) :
                  t \in { "div", "blockquote" }, c \in Nested(n - 1) }

StripForests ==
    HtmlForests \cup { << c, El("p", << Txt(<< "a" >>) >>) >> : c \in Nested(MaxNest) }

\* markup as written by a mail client: special characters left as they are
RawMarkups ==
    { << "<p>", "a", ">", "a", "</p>" >>,
      << "a", "&", "a" >>,
      << "<div>", ">", "<blockquote>", "b", "</blockquote>", "</div>" >> }

\* fragments, complete documents, documents without a head element
StripInputs ==
    { RenderForest(f) : f \in StripForests }
    \cup { RenderNode(El("html", << El("head", << >>), El("body", f) >>)) :
             f \in StripForests }
    \cup { << StartTag("html"), StartTag("body") >> \o RenderForest(f)
             \o << EndTag("body"), EndTag("html") >> : f \in StripForests }
    \cup RawMarkups

NoStripRun == [ parsed |-> El("#document", << >>), stripped |-> El("#document", << >>),
                failed |-> "none", result |-> << >> ]

SqIdle ==
    /\ sqPc = "idle"
    /\ sqRaw = << >>
    /\ sqEnv = NoFailure
    /\ sqRun = NoStripRun

\* ------------------------------------------------------------------------
\* TokenMiddleware
\* ------------------------------------------------------------------------

\* strings.CutPrefix(s, prefix): s without the prefix and true, or s itself
\* and false
CutPrefix(s, prefix) ==
    IF HasPrefix(s, prefix)
    THEN [ after |-> SubSeq(s, Len(prefix) + 1, Len(s)), found |-> TRUE ]
    ELSE [ after |-> s, found |-> FALSE ]

BearerPrefix == << "B", "e", "a", "r", "e", "r", " " >>

\* r.Context() of an incoming request: no token is stored in it
RequestContext == [ jmapToken |-> << >> ]

\* the token of TokenMiddleware: the jmap_token query parameter, and when
\* that is empty and the Authorization header is not, what CutPrefix
\* returns first for the header, whether or not the prefix was found
MiddlewareToken(query, authorization) ==
    IF query # << >> THEN query
    ELSE IF authorization # << >>
         THEN CutPrefix(authorization, BearerPrefix).after
         ELSE << >>

\* the context of the request TokenMiddleware hands to next.ServeHTTP
TokenMiddleware(query, authorization) ==
    IF MiddlewareToken(query, authorization) # << >>
    THEN ContextWithToken(RequestContext, MiddlewareToken(query, authorization))
    ELSE RequestContext

\* ------------------------------------------------------------------------
\* Inputs of TokenMiddleware
\* ------------------------------------------------------------------------

\* longest token of a request
MaxToken == 2

TokenChars == { "a", "B", " " }

\* the strings over TokenChars of length up to n
RECURSIVE TokensUpTo(_)
TokensUpTo(n) ==
    IF n = 0 THEN { << >> }
    ELSE TokensUpTo(n - 1)
         \cup { Append(t, c) : t \in { u \in TokensUpTo(n - 1) : Len(u) = n - 1 },
                               c \in TokenChars }

\* the schemes of an Authorization header: Bearer, Bearer without the
\* blank, Bearer in lower case, Basic
Schemes ==
    { BearerPrefix,
      << "B", "e", "a", "r", "e", "r" >>,
      << "b", "e", "a", "r", "e", "r", " " >>,
      << "B", "a", "s", "i", "c", " " >> }

\* r.URL.Query().Get("jmap_token"): empty when the parameter is not given
Queries == TokensUpTo(MaxToken)

\* r.Header.Get("Authorization"): empty when the header is not given
Authorizations == { << >> } \cup { s \o t : s \in Schemes, t \in TokensUpTo(MaxToken) }

NoRequest == [ query |-> << >>, authorization |-> << >> ]

MwIdle ==
    /\ mwPc = "idle"
    /\ mwReq = NoRequest
    /\ mwNext = << >>

\* ------------------------------------------------------------------------
\* Inputs of the walk of removeBlockquotes
\* ------------------------------------------------------------------------

\* the documents html.Parse gives for the markups
WalkDocs == { htmlParse(raw) : raw \in StripInputs }

WkIdle ==
    /\ wkPc = "idle"
    /\ wkDoc = El("#document", << >>)
    /\ wkRemoved = {}
    /\ wkStack = << >>
    /\ wkVisits = << >>

\* ------------------------------------------------------------------------
\* Inputs of two concurrent email_get calls
\* ------------------------------------------------------------------------

\* the calls that run at the same time
Calls == { 1, 2 }

NoClient == [ client |-> "nil", token |-> "", err |-> "none" ]

NoReq == [ ctx |-> Background, in |-> NoIn, list |-> << >> ]

CcIdle ==
    /\ ccReq = [ c \in Calls |-> NoReq ]
    /\ ccStatic = ""
    /\ ccPc = [ c \in Calls |-> "idle" ]
    /\ ccClient = [ c \in Calls |-> NoClient ]
    /\ ccMaxChars = [ c \in Calls |-> 0 ]
    /\ ccSb = [ c \in Calls |-> << >> ]
    /\ ccIncluded = [ c \in Calls |-> 0 ]
    /\ ccI = [ c \in Calls |-> 0 ]
    /\ ccResult = [ c \in Calls |-> NoResult ]

\* an email with a plain body and one with an HTML body
PlainEmail == CHOOSE e \in SampleEmails : Len(e.To) = 2
HtmlEmail  == CHOOSE e \in SampleEmails : e.Subject = << >> /\ Len(e.HTMLBody) = 1

CcLists ==
    { << PlainEmail >>, << HtmlEmail, PlainEmail >>,
      << PlainEmail, HtmlEmail, PlainEmail >> }

CcBudgets == { 0, 40, MaxBudget }

\* the token a client may send with the request of call c
TokenOf(c) == IF c = 1 THEN "c1" ELSE "c2"

\* the requests call c may be
CcRequests(c) ==
    { [ ctx |-> ctx,
        in |-> [ EmailIDs |-> IDsOf(list), FullHeaders |-> FALSE, MaxChars |-> m ],
        list |-> list ] :
        ctx \in { Background, ContextWithToken(Background, TokenOf(c)) },
        list \in CcLists, m \in CcBudgets }

\* ------------------------------------------------------------------------
\* Inputs of the tool calls
\* ------------------------------------------------------------------------

\* the ID of the mailbox that a Mailbox/get response lists with the role
\* (mb.ID of the mailbox with mb.Role == role), "" if there is none
MailboxWithRole(response, role) ==
    IF response.type = "mailbox.GetResponse" /\ role \in response.Roles
    THEN role ELSE ""

\* the jmap.Patch of OnSuccessUpdateEmail: the value of each path
SubmissionPatch(draftsID, sentID) ==
    [ path \in { << "mailboxIds", draftsID >>, << "mailboxIds", sentID >>,
                 << "keywords", "$draft" >> } |->
        IF path = << "mailboxIds", sentID >> THEN "true" ELSE "nil" ]

\* the arguments of the emailsubmission.Set that email_submission_set invokes
SubmissionSet(in, env) ==
    [ Create |-> [ IdentityID |-> IF in.IdentityID # "" THEN in.IdentityID
                                  ELSE env.responses[2].List[1],
                   EmailID    |-> in.EmailID ],
      OnSuccessUpdateEmail |->
          SubmissionPatch(MailboxWithRole(env.responses[1], "drafts"),
                          MailboxWithRole(env.responses[1], "sent")) ]

\* the arguments of the email.Set that email_delete invokes
DeleteSet(in, env) ==
    IF in.Permanent
    THEN [ Destroy |-> in.EmailIDs, Update |-> << >> ]
    ELSE [ Destroy |-> << >>,
           Update  |-> [ id \in { in.EmailIDs[i] : i \in 1..Len(in.EmailIDs) } |->
                           [ mailboxIds |-> { MailboxWithRole(env.responses[1], "trash") } ] ] ]

\* the arguments of the method calls a handler sent, for the calls that
\* submit or delete; the method's name for the others
Invoked(tool, in, env, sent) ==
    [ i \in 1..Len(sent) |->
        IF sent[i] = "EmailSubmission/set" THEN SubmissionSet(in, env)
        ELSE IF tool = "email_delete" /\ sent[i] \in { "Email/set destroy", "Email/set update" }
        THEN DeleteSet(in, env)
        ELSE sent[i] ]

NoServer == [ enableSend |-> FALSE, enableSieve |-> FALSE, tools |-> {} ]

NoCall == [ tool |-> "none", in |-> << >>, env |-> << >>, handled |-> FALSE,
            result |-> NoResult, sent |-> << >>, args |-> << >> ]

SvIdle ==
    /\ svPc = "idle"
    /\ svArgs = {}
    /\ svSieve = FALSE
    /\ svServer = NoServer
    /\ svLast = NoCall
    /\ svSubmitted = FALSE

\* the responses of a JMAP server on which nothing goes wrong, to the first
\* request of the tool with input in
OkResponses(tool, in) ==
    LET boxes == [ Rsp("mailbox.GetResponse") EXCEPT
                     !.Roles = { "inbox", "drafts", "sent", "trash" },
                     !.List = << "inbox", "drafts", "sent", "trash" >> ]
        ids   == [ Rsp("identity.GetResponse") EXCEPT !.List = << "identity" >> ]
    IN  CASE tool = "mailbox_get"  -> << boxes >>
          [] tool = "mailbox_set"  -> << Rsp("mailbox.SetResponse") >>
          [] tool = "email_query"  -> << Rsp("email.QueryResponse"), Rsp("GetResponse") >>
          [] tool = "email_get"    ->
                << [ Rsp("GetResponse") EXCEPT !.List = << PlainEmail >> ] >>
          [] tool = "email_create" -> << boxes >>
          [] tool = "email_move"   -> << Rsp("email.SetResponse") >>
          [] tool = "email_flag"   -> << Rsp("email.SetResponse") >>
          [] tool = "email_delete" ->
                IF in.Permanent THEN << Rsp("email.SetResponse") >> ELSE << boxes >>
          [] tool = "identity_get" -> << ids >>
          [] tool = "email_submission_set" -> << boxes, ids >>
          [] tool = "sieve_get"    ->
                << [ Rsp("sievescript.GetResponse") EXCEPT !.List = << "script" >> ] >>
          [] tool = "sieve_set"    -> << Rsp("sievescript.SetResponse") >>
          [] tool = "sieve_validate" -> << Rsp("sievescript.ValidateResponse") >>

\* and to its second request
OkResponses2(tool, in) ==
    CASE tool = "email_create" ->
             << [ Rsp("email.SetResponse") EXCEPT !.Created = { "draft" } ] >>
      [] tool = "email_delete" ->
             IF in.Permanent THEN << >> ELSE << Rsp("email.SetResponse") >>
      [] tool = "email_submission_set" ->
             << [ Rsp("emailsubmission.SetResponse") EXCEPT !.Created = { "send" } ],
                Rsp("email.SetResponse") >>
      [] OTHER -> << >>

SvOkEnv(tool, in) ==
    [ ctxToken |-> "", staticToken |-> "t", authOK |-> TRUE,
      accountID |-> "acc", sieveAccountID |-> "acc",
      uploadOK |-> TRUE, downloadOK |-> TRUE, readOK |-> TRUE,
      doOK |-> TRUE, responses |-> OkResponses(tool, in),
      do2OK |-> TRUE, responses2 |-> OkResponses2(tool, in) ]

\* what can go wrong before the first request and around it
Deviations1(ok) ==
    { [ ok EXCEPT !.staticToken = "" ],
      [ ok EXCEPT !.staticToken = "", !.ctxToken = "c" ],
      [ ok EXCEPT !.authOK = FALSE ],
      [ ok EXCEPT !.accountID = "" ],
      [ ok EXCEPT !.sieveAccountID = "" ],
      [ ok EXCEPT !.uploadOK = FALSE ],
      [ ok EXCEPT !.downloadOK = FALSE ],
      [ ok EXCEPT !.readOK = FALSE ],
      [ ok EXCEPT !.doOK = FALSE ],
      [ ok EXCEPT !.responses = << >> ],
      [ ok EXCEPT !.responses = << ok.responses[1] >> ],
      [ ok EXCEPT !.responses[1] = Rsp("MethodError") ],
      [ ok EXCEPT !.responses[1] = Rsp("other") ],
      [ ok EXCEPT !.responses[Len(ok.responses)] = Rsp("MethodError") ],
      [ ok EXCEPT !.responses[Len(ok.responses)] = Rsp("other") ],
      [ ok EXCEPT !.responses[1].NotFound = << "x" >> ],
      [ ok EXCEPT !.responses[1].List = << >> ],
      [ ok EXCEPT !.responses[Len(ok.responses)].List = << >> ],
      [ ok EXCEPT !.responses[1].Roles = { "inbox" } ],
      [ ok EXCEPT !.responses[1].Roles = { "inbox", "drafts", "trash" } ],
      [ ok EXCEPT !.responses[1].NotCreated = { "new" } ],
      [ ok EXCEPT !.responses[1].NotUpdated = { "m" } ],
      [ ok EXCEPT !.responses[1].NotDestroyed = { "m" } ],
      [ ok EXCEPT !.responses[1].Error = TRUE ] }

\* what can go wrong with the second request
Deviations2(ok) ==
    IF ok.responses2 = << >> THEN {}
    ELSE { [ ok EXCEPT !.do2OK = FALSE ],
           [ ok EXCEPT !.responses2 = << >> ],
           [ ok EXCEPT !.responses2[1] = Rsp("MethodError") ],
           [ ok EXCEPT !.responses2[1] = Rsp("other") ],
           [ ok EXCEPT !.responses2[1].NotCreated = { "draft", "send" } ],
           [ ok EXCEPT !.responses2[1].NotUpdated = { "m" } ],
           [ ok EXCEPT !.responses2[Len(ok.responses2)].NotUpdated = { "m" } ],
           [ ok EXCEPT !.responses2[Len(ok.responses2)] = Rsp("MethodError") ] }

SvEnvs(tool, in) ==
    { SvOkEnv(tool, in) } \cup Deviations1(SvOkEnv(tool, in))
                         \cup Deviations2(SvOkEnv(tool, in))

NoFlags == [ k \in { "seen", "flagged", "answered", "draft" } |-> "nil" ]

GoodDate == << "2", "0", "2", "4", "-", "0", "1", "-", "3", "1" >>
BadDate  == << "3", "1", ".", "0", "1", ".", "2", "0", "2", "4" >>

\* the input of every tool that passes the handler's own validation
GoodInput(tool) ==
    CASE tool \in { "mailbox_get", "identity_get" } -> [ IDs |-> << >> ]
      [] tool = "mailbox_set" -> [ Create |-> { "new" }, Update |-> {}, Destroy |-> {} ]
      [] tool = "email_query" -> [ Before |-> GoodDate, After |-> SampleDate ]
      [] tool = "email_get" ->
             [ EmailIDs |-> << << "m" >> >>, FullHeaders |-> FALSE, MaxChars |-> 0 ]
      [] tool = "email_create" -> [ To |-> << "t" >>, Subject |-> "s", Body |-> "b" ]
      [] tool = "email_move" -> [ EmailIDs |-> << "m" >>, MailboxID |-> "inbox" ]
      [] tool = "email_flag" ->
             [ EmailIDs |-> << "m" >>, Flags |-> [ NoFlags EXCEPT !["seen"] = "true" ] ]
      [] tool = "email_delete" -> [ EmailIDs |-> << "m" >>, Permanent |-> FALSE ]
      [] tool = "email_submission_set" -> [ EmailID |-> "m", IdentityID |-> "" ]
      [] tool = "sieve_get" -> [ ID |-> "script" ]
      [] tool = "sieve_set" ->
             [ ID |-> "", Name |-> "n", Content |-> "c", Destroy |-> {} ]
      [] tool = "sieve_validate" -> [ Content |-> "c" ]

\* other inputs: the ones the handler rejects and the other modes of a tool
OtherInputs(tool) ==
    LET good == GoodInput(tool)
    IN  CASE tool = "mailbox_set" ->
                 { [ good EXCEPT !.Create = {} ],
                   [ good EXCEPT !.Create = {}, !.Update = { "m" } ],
                   [ good EXCEPT !.Create = {}, !.Destroy = { "m" } ] }
          [] tool = "email_query" ->
                 { [ good EXCEPT !.Before = BadDate ], [ good EXCEPT !.After = BadDate ],
                   [ good EXCEPT !.Before = << >>, !.After = << >> ] }
          [] tool = "email_get" -> { [ good EXCEPT !.EmailIDs = << >> ] }
          [] tool = "email_move" -> { [ good EXCEPT !.EmailIDs = << >> ] }
          [] tool = "email_flag" ->
                 { [ good EXCEPT !.EmailIDs = << >> ], [ good EXCEPT !.Flags = NoFlags ],
                   [ good EXCEPT !.Flags = [ NoFlags EXCEPT !["draft"] = "false" ] ] }
          [] tool = "email_delete" ->
                 { [ good EXCEPT !.EmailIDs = << >> ], [ good EXCEPT !.Permanent = TRUE ],
                   [ good EXCEPT !.EmailIDs = << "m", "n" >> ],
                   [ good EXCEPT !.EmailIDs = << "m", "n" >>, !.Permanent = TRUE ] }
          [] tool = "email_submission_set" ->
                 { [ good EXCEPT !.EmailID = "" ], [ good EXCEPT !.IdentityID = "i" ] }
          [] tool = "sieve_get" -> { [ good EXCEPT !.ID = "" ] }
          [] tool = "sieve_set" ->
                 { [ good EXCEPT !.Name = "", !.Content = "" ],
                   [ good EXCEPT !.Content = "" ],
                   [ good EXCEPT !.ID = "script" ],
                   [ good EXCEPT !.Name = "", !.Content = "", !.Destroy = { "script" } ] }
          [] OTHER -> {}

\* the calls of a tool: its valid input with everything that can go wrong,
\* its other inputs with a server on which nothing goes wrong, and one of
\* them with a failing request
SvCalls(tool) ==
    { << GoodInput(tool), env >> : env \in SvEnvs(tool, GoodInput(tool)) }
    \cup { << in, SvOkEnv(tool, in) >> : in \in OtherInputs(tool) }
    \cup { << in, [ SvOkEnv(tool, in) EXCEPT !.responses[1].NotUpdated = { "m" },
                                             !.responses[1].NotDestroyed = { "m" } ] >> :
              in \in OtherInputs(tool) }
    \cup { << in, [ SvOkEnv(tool, in) EXCEPT
                     !.responses[Len(OkResponses(tool, in))].List = << >> ] >> :
              in \in OtherInputs(tool) }

\* ------------------------------------------------------------------------
\* Specification of the pure functions: Init draws the arguments, one action
\* per function applies it.
\* ------------------------------------------------------------------------

TbInit ==
    /\ MwIdle
    /\ WkIdle
    /\ tbPc = "call"
    /\ tbFn = "none"
    /\ \/ tbText \in Texts /\ tbLimit \in Limits
       \/ tbText \in LongTexts /\ tbLimit \in { -1, 0, 1, MaxLimit, DefaultMaxBodyChars }
    /\ tbRun = NoRun
    /\ tbAgain = NoAgain
    /\ EgIdle
    /\ SqIdle
    /\ CcIdle
    /\ SvIdle

CallTruncateBody ==
    /\ tbPc = "call"
    /\ tbPc' = "done"
    /\ tbFn' = "TruncateBody"
    /\ tbRun' = TruncateBodyRun(tbText, tbLimit)
    /\ UNCHANGED << tbText, tbLimit, tbAgain >>
    /\ UNCHANGED othersThanTb

CallPrepareBody ==
    /\ tbPc = "call"
    /\ tbPc' = "done"
    /\ tbFn' = "PrepareBody"
    /\ tbRun' = [ NoRun EXCEPT !.result = PrepareBody(tbText, tbLimit) ]
    /\ UNCHANGED << tbText, tbLimit, tbAgain >>
    /\ UNCHANGED othersThanTb

\* TruncateBody applied to the result of TruncateBody
CallTruncateBodyAgain ==
    /\ tbPc = "done"
    /\ tbFn = "TruncateBody"
    /\ tbPc' = "again"
    /\ \E b \in SecondLimits(tbLimit) :
           tbAgain' = [ limit |-> b, run |-> TruncateBodyRun(tbRun.result, b) ]
    /\ UNCHANGED << tbFn, tbText, tbLimit, tbRun >>
    /\ UNCHANGED othersThanTb

TbNext == CallTruncateBody \/ CallPrepareBody \/ CallTruncateBodyAgain

SpecTruncate == TbInit /\ [][TbNext]_vars

\* ------------------------------------------------------------------------
\* Specification of email_get: Init draws the request and the answers, the
\* actions are the steps of handleEmailGet.
\* ------------------------------------------------------------------------

EgInit ==
    /\ MwIdle
    /\ WkIdle
    /\ TbIdle
    /\ SqIdle
    /\ CcIdle
    /\ SvIdle
    /\ egPc = "begin"
    /\ \/ \E list \in EmailLists :
            /\ egEnv = OkEnv(list)
            /\ egIn \in [ EmailIDs : { IDsOf(list) }, FullHeaders : BOOLEAN,
                          MaxChars : Budgets ]
       \/ /\ egEnv = OkEnv(ScenarioList)
          /\ egIn \in [ EmailIDs : { IDsOf(ScenarioList) }, FullHeaders : { FALSE },
                        MaxChars : { -1, 0, MaxBudget, DefaultMaxBodyChars,
                                     defaultMaxChars } ]
       \/ /\ egEnv \in OtherEnvs
          /\ egIn \in [ EmailIDs : { << >>, << << "m" >> >> }, FullHeaders : { FALSE },
                        MaxChars : { 0, MaxBudget } ]
    /\ egList = << >>
    /\ egMaxChars = 0
    /\ egSb = << >>
    /\ egIncluded = 0
    /\ egI = 0
    /\ egOmitted = -1
    /\ egLast = NoLast
    /\ egResult = NoResult

\* what the handler returns: a tool result and a nil Go error
Return(result) == [ IsError |-> result.IsError, Text |-> result.Text, err |-> "nil" ]

\* Variant: a max_chars that is not positive is rejected as invalid input.
EmailGetOutcome_RejectsNonPositive(in, env) ==
    IF Len(in.EmailIDs) = 0
    THEN [ ok |-> FALSE, result |-> errorResult("email_ids is required") ]
    ELSE IF in.MaxChars <= 0
    THEN [ ok |-> FALSE, result |-> errorResult("max_chars must be positive") ]
    ELSE LET c == jmapClient(env)
         IN  IF c.err # "nil"
             THEN [ ok |-> FALSE, result |-> errorResult(c.err) ]
             ELSE IF env.accountID = ""
             THEN [ ok |-> FALSE, result |-> errorResult("no primary mail account") ]
             ELSE IF ~env.doOK
             THEN [ ok |-> FALSE, result |-> errorResult("request failed") ]
             ELSE IF Len(env.responses) = 0
             THEN [ ok |-> FALSE, result |-> errorResult("empty response for Email/get") ]
             ELSE LET args == env.responses[1]
                  IN  IF args.type = "GetResponse"
                      THEN IF Len(args.NotFound) > 0
                           THEN [ ok |-> FALSE, result |-> errorResult("emails not found") ]
                           ELSE IF Len(args.List) = 0
                           THEN [ ok |-> FALSE, result |-> errorResult("no emails found") ]
                           ELSE [ ok |-> TRUE, result |-> textResult(<< >>) ]
                      ELSE IF args.type = "MethodError"
                      THEN [ ok |-> FALSE, result |-> errorResult("method error") ]
                      ELSE [ ok |-> FALSE, result |-> errorResult("unexpected response type") ]

\* handleEmailGet up to the loop: validation, client, request, the switch on
\* the response and the default of maxChars
EmailGetOutcome(in, env) ==
    IF Len(in.EmailIDs) = 0
    THEN [ ok |-> FALSE, result |-> errorResult("email_ids is required") ]
    ELSE LET c == jmapClient(env)
         IN  IF c.err # "nil"
             THEN [ ok |-> FALSE, result |-> errorResult(c.err) ]
             ELSE IF env.accountID = ""
             THEN [ ok |-> FALSE, result |-> errorResult("no primary mail account") ]
             ELSE IF ~env.doOK
             THEN [ ok |-> FALSE, result |-> errorResult("request failed") ]
             ELSE IF Len(env.responses) = 0
             THEN [ ok |-> FALSE, result |-> errorResult("empty response for Email/get") ]
             ELSE LET args == env.responses[1]
                  IN  IF args.type = "GetResponse"
                      THEN IF Len(args.NotFound) > 0
                           THEN [ ok |-> FALSE, result |-> errorResult("emails not found") ]
                           ELSE IF Len(args.List) = 0
                           THEN [ ok |-> FALSE, result |-> errorResult("no emails found") ]
                           ELSE [ ok |-> TRUE, result |-> textResult(<< >>) ]
                      ELSE IF args.type = "MethodError"
                      THEN [ ok |-> FALSE, result |-> errorResult("method error") ]
                      ELSE [ ok |-> FALSE, result |-> errorResult("unexpected response type") ]

\* handleEmailGet as a whole: the outcome before the loop, then the loop
handleEmailGet(in, env) ==
    LET o == EmailGetOutcome(in, env)
        sent == IF Len(in.EmailIDs) = 0 \/ clientError(env, env.accountID, "x") # "nil"
                THEN << >> ELSE << "Email/get" >>
    IN  IF o.ok
        THEN Handled(textResult(RunLoop(env.responses[1].List, in.FullHeaders,
                                        EffectiveMaxChars(in.MaxChars), 0, << >>, 0).sb),
                     sent)
        ELSE Handled(o.result, sent)

EmailGetBegin ==
    /\ egPc = "begin"
    /\ LET o == EmailGetOutcome(egIn, egEnv)
       IN  IF o.ok
           THEN /\ egPc' = "loop"
                /\ egList' = egEnv.responses[1].List
                /\ egMaxChars' = EffectiveMaxChars(egIn.MaxChars)
                /\ egResult' = egResult
           ELSE /\ egPc' = "done"
                /\ egResult' = Return(o.result)
                /\ UNCHANGED << egList, egMaxChars >>
    /\ egSb' = << >>
    /\ egIncluded' = 0
    /\ egI' = 0
    /\ UNCHANGED << egIn, egEnv, egOmitted, egLast >>
    /\ UNCHANGED othersThanEg

\* one pass of the loop body
EmailGetItem ==
    /\ egPc = "loop"
    /\ egI < Len(egList)
    /\ LET r == LoopBody(egList, egIn.FullHeaders, egMaxChars, egI, egSb, egIncluded)
       IN  /\ egSb' = r.sb
           /\ egIncluded' = r.included
           /\ egOmitted' = r.omitted
           /\ egLast' = r.locals
           /\ egI' = IF r.locals.broke THEN egI ELSE egI + 1
           /\ egPc' = IF r.locals.broke \/ egI + 1 = Len(egList)
                      THEN "return" ELSE "loop"
    /\ UNCHANGED << egIn, egEnv, egList, egMaxChars, egResult >>
    /\ UNCHANGED othersThanEg

\* return textResult(sb.String()), nil, nil
EmailGetReturn ==
    /\ egPc = "return"
    /\ egPc' = "done"
    /\ egResult' = Return(textResult(egSb))
    /\ UNCHANGED << egIn, egEnv, egList, egMaxChars, egSb, egIncluded, egI,
                    egOmitted, egLast >>
    /\ UNCHANGED othersThanEg

EgNext == EmailGetBegin \/ EmailGetItem \/ EmailGetReturn

SpecEmailGet == EgInit /\ [][EgNext]_vars

\* ------------------------------------------------------------------------
\* Specification of StripBlockquotes: Init draws the markup and the failures
\* of the HTML library, the action applies the function.
\* ------------------------------------------------------------------------

SqInit ==
    /\ MwIdle
    /\ WkIdle
    /\ TbIdle
    /\ EgIdle
    /\ CcIdle
    /\ SvIdle
    /\ sqPc = "call"
    /\ sqRaw \in StripInputs
    /\ sqEnv \in [ parseErr : BOOLEAN, renderErr : BOOLEAN ]
    /\ sqRun = NoStripRun

CallStripBlockquotes ==
    /\ sqPc = "call"
    /\ sqPc' = "done"
    /\ sqRun' = StripBlockquotesRun(sqRaw, sqEnv)
    /\ UNCHANGED << sqRaw, sqEnv >>
    /\ UNCHANGED othersThanSq

SqNext == CallStripBlockquotes

SpecStrip == SqInit /\ [][SqNext]_vars

\* ------------------------------------------------------------------------
\* Specification of two concurrent email_get calls: each call is a
\* goroutine running handleEmailGet on its own request; their steps
\* interleave in any order.
\* ------------------------------------------------------------------------

CcInit ==
    /\ MwIdle
    /\ WkIdle
    /\ TbIdle
    /\ EgIdle
    /\ SqIdle
    /\ SvIdle
    /\ ccReq \in { r \in [ Calls -> UNION { CcRequests(c) : c \in Calls } ] :
                      \A c \in Calls : r[c] \in CcRequests(c) }
    /\ ccStatic \in { "", "s" }
    /\ ccPc = [ c \in Calls |-> "begin" ]
    /\ ccClient = [ c \in Calls |-> NoClient ]
    /\ ccMaxChars = [ c \in Calls |-> 0 ]
    /\ ccSb = [ c \in Calls |-> << >> ]
    /\ ccIncluded = [ c \in Calls |-> 0 ]
    /\ ccI = [ c \in Calls |-> 0 ]
    /\ ccResult = [ c \in Calls |-> NoResult ]

\* what call c meets: the token of its own context, the server's static
\* token and a JMAP server that answers with the emails asked for
CcEnv(c) ==
    [ OkEnv(ccReq[c].list) EXCEPT !.ctxToken = TokenFromContext(ccReq[c].ctx),
                                  !.staticToken = ccStatic ]

\* Variant: maxChars, sb and included are package-level variables, one for
\* all calls.
Local_PackageLevel(c) == 1

\* the frame that holds maxChars, sb and included of call c: they are
\* locals of handleEmailGet, one set per call
Local(c) == c

\* handleEmailGet of call c up to the loop
CcBegin(c) ==
    /\ ccPc[c] = "begin"
    /\ LET o == EmailGetOutcome(ccReq[c].in, CcEnv(c))
       IN  /\ ccClient' = IF Len(ccReq[c].in.EmailIDs) = 0 THEN ccClient
                          ELSE [ ccClient EXCEPT ![c] = jmapClient(CcEnv(c)) ]
           /\ IF o.ok
              THEN /\ ccPc' = [ ccPc EXCEPT ![c] = "loop" ]
                   /\ ccMaxChars' = [ ccMaxChars EXCEPT
                                        ![Local(c)] = EffectiveMaxChars(ccReq[c].in.MaxChars) ]
                   /\ ccSb' = [ ccSb EXCEPT ![Local(c)] = << >> ]
                   /\ ccIncluded' = [ ccIncluded EXCEPT ![Local(c)] = 0 ]
                   /\ ccResult' = ccResult
              ELSE /\ ccPc' = [ ccPc EXCEPT ![c] = "done" ]
                   /\ ccResult' = [ ccResult EXCEPT ![c] = Return(o.result) ]
                   /\ UNCHANGED << ccMaxChars, ccSb, ccIncluded >>
    /\ UNCHANGED << ccReq, ccStatic, ccI >>
    /\ UNCHANGED othersThanCc

\* one pass of the loop body of call c
CcItem(c) ==
    /\ ccPc[c] = "loop"
    /\ ccI[c] < Len(ccReq[c].list)
    /\ LET r == LoopBody(ccReq[c].list, ccReq[c].in.FullHeaders, ccMaxChars[Local(c)],
                         ccI[c], ccSb[Local(c)], ccIncluded[Local(c)])
       IN  /\ ccSb' = [ ccSb EXCEPT ![Local(c)] = r.sb ]
           /\ ccIncluded' = [ ccIncluded EXCEPT ![Local(c)] = r.included ]
           /\ ccI' = [ ccI EXCEPT ![c] = IF r.locals.broke THEN ccI[c] ELSE ccI[c] + 1 ]
           /\ ccPc' = [ ccPc EXCEPT ![c] =
                          IF r.locals.broke \/ ccI[c] + 1 = Len(ccReq[c].list)
                          THEN "return" ELSE "loop" ]
    /\ UNCHANGED << ccReq, ccStatic, ccClient, ccMaxChars, ccResult >>
    /\ UNCHANGED othersThanCc

\* return textResult(sb.String()), nil, nil of call c
CcReturn(c) ==
    /\ ccPc[c] = "return"
    /\ ccPc' = [ ccPc EXCEPT ![c] = "done" ]
    /\ ccResult' = [ ccResult EXCEPT ![c] = Return(textResult(ccSb[Local(c)])) ]
    /\ UNCHANGED << ccReq, ccStatic, ccClient, ccMaxChars, ccSb, ccIncluded, ccI >>
    /\ UNCHANGED othersThanCc

CcNext == \E c \in Calls : CcBegin(c) \/ CcItem(c) \/ CcReturn(c)

SpecConcurrent == CcInit /\ [][CcNext]_vars

\* ------------------------------------------------------------------------
\* Specification of the server: it is built from the command line, registers
\* its tools, and then serves tool calls, any number of them
\* ------------------------------------------------------------------------

SvInit ==
    /\ MwIdle
    /\ WkIdle
    /\ TbIdle
    /\ EgIdle
    /\ SqIdle
    /\ CcIdle
    /\ svPc = "start"
    /\ svArgs \in SUBSET { "-enable-send" }
    /\ svSieve \in BOOLEAN
    /\ svServer = NoServer
    /\ svLast = NoCall
    /\ svSubmitted = FALSE

\* main: LoadConfig, NewServer (which registers the tools), then serve
StartServer ==
    /\ svPc = "start"
    /\ svPc' = "serving"
    /\ svServer' = NewServer(LoadConfig(svArgs), svSieve)
    /\ UNCHANGED << svArgs, svSieve, svLast, svSubmitted >>
    /\ UNCHANGED othersThanSv

\* a call of a registered tool: the SDK runs the handler with the decoded
\* input, and the handler's result is the result of the call
Served(tool, in, env, h) ==
    [ tool |-> tool, in |-> in, env |-> env, handled |-> TRUE,
      result |-> Return(h.result), sent |-> h.sent,
      args |-> Invoked(tool, in, env, h.sent) ]

Submits(sent) == \E i \in 1..Len(sent) : sent[i] = "EmailSubmission/set"

CallMailboxGet ==
    /\ svPc = "serving"
    /\ "mailbox_get" \in svServer.tools
    /\ \E c \in SvCalls("mailbox_get") :
           svLast' = Served("mailbox_get", c[1], c[2], handleMailboxGet(c[1], c[2]))
    /\ svSubmitted' = (svSubmitted \/ Submits(svLast'.sent))
    /\ UNCHANGED << svPc, svArgs, svSieve, svServer >>
    /\ UNCHANGED othersThanSv

CallMailboxSet ==
    /\ svPc = "serving"
    /\ "mailbox_set" \in svServer.tools
    /\ \E c \in SvCalls("mailbox_set") :
           svLast' = Served("mailbox_set", c[1], c[2], handleMailboxSet(c[1], c[2]))
    /\ svSubmitted' = (svSubmitted \/ Submits(svLast'.sent))
    /\ UNCHANGED << svPc, svArgs, svSieve, svServer >>
    /\ UNCHANGED othersThanSv

CallEmailQuery ==
    /\ svPc = "serving"
    /\ "email_query" \in svServer.tools
    /\ \E c \in SvCalls("email_query") :
           svLast' = Served("email_query", c[1], c[2], handleEmailQuery(c[1], c[2]))
    /\ svSubmitted' = (svSubmitted \/ Submits(svLast'.sent))
    /\ UNCHANGED << svPc, svArgs, svSieve, svServer >>
    /\ UNCHANGED othersThanSv

CallEmailGet ==
    /\ svPc = "serving"
    /\ "email_get" \in svServer.tools
    /\ \E c \in SvCalls("email_get") :
           svLast' = Served("email_get", c[1], c[2], handleEmailGet(c[1], c[2]))
    /\ svSubmitted' = (svSubmitted \/ Submits(svLast'.sent))
    /\ UNCHANGED << svPc, svArgs, svSieve, svServer >>
    /\ UNCHANGED othersThanSv

CallEmailCreate ==
    /\ svPc = "serving"
    /\ "email_create" \in svServer.tools
    /\ \E c \in SvCalls("email_create") :
           svLast' = Served("email_create", c[1], c[2], handleEmailCreate(c[1], c[2]))
    /\ svSubmitted' = (svSubmitted \/ Submits(svLast'.sent))
    /\ UNCHANGED << svPc, svArgs, svSieve, svServer >>
    /\ UNCHANGED othersThanSv

CallEmailMove ==
    /\ svPc = "serving"
    /\ "email_move" \in svServer.tools
    /\ \E c \in SvCalls("email_move") :
           svLast' = Served("email_move", c[1], c[2], handleEmailMove(c[1], c[2]))
    /\ svSubmitted' = (svSubmitted \/ Submits(svLast'.sent))
    /\ UNCHANGED << svPc, svArgs, svSieve, svServer >>
    /\ UNCHANGED othersThanSv

CallEmailFlag ==
    /\ svPc = "serving"
    /\ "email_flag" \in svServer.tools
    /\ \E c \in SvCalls("email_flag") :
           svLast' = Served("email_flag", c[1], c[2], handleEmailFlag(c[1], c[2]))
    /\ svSubmitted' = (svSubmitted \/ Submits(svLast'.sent))
    /\ UNCHANGED << svPc, svArgs, svSieve, svServer >>
    /\ UNCHANGED othersThanSv

CallEmailDelete ==
    /\ svPc = "serving"
    /\ "email_delete" \in svServer.tools
    /\ \E c \in SvCalls("email_delete") :
           svLast' = Served("email_delete", c[1], c[2], handleEmailDelete(c[1], c[2]))
    /\ svSubmitted' = (svSubmitted \/ Submits(svLast'.sent))
    /\ UNCHANGED << svPc, svArgs, svSieve, svServer >>
    /\ UNCHANGED othersThanSv

CallIdentityGet ==
    /\ svPc = "serving"
    /\ "identity_get" \in svServer.tools
    /\ \E c \in SvCalls("identity_get") :
           svLast' = Served("identity_get", c[1], c[2], handleIdentityGet(c[1], c[2]))
    /\ svSubmitted' = (svSubmitted \/ Submits(svLast'.sent))
    /\ UNCHANGED << svPc, svArgs, svSieve, svServer >>
    /\ UNCHANGED othersThanSv

CallEmailSubmissionSet ==
    /\ svPc = "serving"
    /\ "email_submission_set" \in svServer.tools
    /\ \E c \in SvCalls("email_submission_set") :
           svLast' = Served("email_submission_set", c[1], c[2], handleEmailSubmissionSet(c[1], c[2]))
    /\ svSubmitted' = (svSubmitted \/ Submits(svLast'.sent))
    /\ UNCHANGED << svPc, svArgs, svSieve, svServer >>
    /\ UNCHANGED othersThanSv

CallSieveGet ==
    /\ svPc = "serving"
    /\ "sieve_get" \in svServer.tools
    /\ \E c \in SvCalls("sieve_get") :
           svLast' = Served("sieve_get", c[1], c[2], handleSieveGet(c[1], c[2]))
    /\ svSubmitted' = (svSubmitted \/ Submits(svLast'.sent))
    /\ UNCHANGED << svPc, svArgs, svSieve, svServer >>
    /\ UNCHANGED othersThanSv

CallSieveSet ==
    /\ svPc = "serving"
    /\ "sieve_set" \in svServer.tools
    /\ \E c \in SvCalls("sieve_set") :
           svLast' = Served("sieve_set", c[1], c[2], handleSieveSet(c[1], c[2]))
    /\ svSubmitted' = (svSubmitted \/ Submits(svLast'.sent))
    /\ UNCHANGED << svPc, svArgs, svSieve, svServer >>
    /\ UNCHANGED othersThanSv

CallSieveValidate ==
    /\ svPc = "serving"
    /\ "sieve_validate" \in svServer.tools
    /\ \E c \in SvCalls("sieve_validate") :
           svLast' = Served("sieve_validate", c[1], c[2], handleSieveValidate(c[1], c[2]))
    /\ svSubmitted' = (svSubmitted \/ Submits(svLast'.sent))
    /\ UNCHANGED << svPc, svArgs, svSieve, svServer >>
    /\ UNCHANGED othersThanSv

\* a call of a tool that is not registered: the SDK answers with a protocol
\* error, no handler runs
CallUnknownTool ==
    /\ svPc = "serving"
    /\ \E tool \in ToolNames \ svServer.tools :
           svLast' = [ tool |-> tool, in |-> GoodInput(tool),
                       env |-> SvOkEnv(tool, GoodInput(tool)),
                       handled |-> FALSE,
                       result |-> [ IsError |-> FALSE, Text |-> << >>,
                                    err |-> "unknown tool" ],
                       sent |-> << >>, args |-> << >> ]
    /\ UNCHANGED << svPc, svArgs, svSieve, svServer, svSubmitted >>
    /\ UNCHANGED othersThanSv

SvNext ==
    \/ StartServer
    \/ CallMailboxGet
    \/ CallMailboxSet
    \/ CallEmailQuery
    \/ CallEmailGet
    \/ CallEmailCreate
    \/ CallEmailMove
    \/ CallEmailFlag
    \/ CallEmailDelete
    \/ CallIdentityGet
    \/ CallEmailSubmissionSet
    \/ CallSieveGet
    \/ CallSieveSet
    \/ CallSieveValidate
    \/ CallUnknownTool

SpecServer == SvInit /\ [][SvNext]_vars

\* ------------------------------------------------------------------------
\* Specification of the walk of removeBlockquotes, one loop step at a time:
\* Init draws the parsed document; the activations of the recursive
\* function are kept on a stack, the running one last.
\* ------------------------------------------------------------------------

WkInit ==
    /\ MwIdle
    /\ TbIdle
    /\ EgIdle
    /\ SqIdle
    /\ CcIdle
    /\ SvIdle
    /\ wkPc = "call"
    /\ wkDoc \in WalkDocs
    /\ wkRemoved = {}
    /\ wkStack = << >>
    /\ wkVisits = << >>

WkTop == wkStack[Len(wkStack)]

\* StripBlockquotes calls removeBlockquotes(doc)
RemoveBlockquotesCall ==
    /\ wkPc = "call"
    /\ wkPc' = "loop"
    /\ wkStack' = << Activation(wkDoc, wkRemoved, << >>) >>
    /\ UNCHANGED << wkDoc, wkRemoved, wkVisits >>
    /\ UNCHANGED othersThanWk

\* c != nil: the loop body, up to the continue or the recursive call
RemoveBlockquotesPass ==
    /\ wkPc = "loop"
    /\ WkTop.c # 0
    /\ wkVisits' = Append(wkVisits, WkTop.n \o << WkTop.c >>)
    /\ wkRemoved' = LoopPass(wkDoc, wkRemoved, WkTop.n, WkTop.c).removed
    /\ wkStack' =
         IF LoopPass(wkDoc, wkRemoved, WkTop.n, WkTop.c).descend
         THEN [ wkStack EXCEPT ![Len(wkStack)].next =
                    LoopPass(wkDoc, wkRemoved, WkTop.n, WkTop.c).next ]
              \o << Activation(wkDoc, wkRemoved, WkTop.n \o << WkTop.c >>) >>
         ELSE [ wkStack EXCEPT
                  ![Len(wkStack)].next = LoopPass(wkDoc, wkRemoved, WkTop.n, WkTop.c).next,
                  ![Len(wkStack)].c = LoopPass(wkDoc, wkRemoved, WkTop.n, WkTop.c).next ]
    /\ UNCHANGED << wkPc, wkDoc >>
    /\ UNCHANGED othersThanWk

\* c == nil: the activation returns, its caller goes on with c = next
RemoveBlockquotesReturn ==
    /\ wkPc = "loop"
    /\ WkTop.c = 0
    /\ IF Len(wkStack) = 1
       THEN /\ wkPc' = "done"
            /\ wkStack' = << >>
       ELSE /\ wkPc' = "loop"
            /\ wkStack' = [ SubSeq(wkStack, 1, Len(wkStack) - 1) EXCEPT
                              ![Len(wkStack) - 1].c = wkStack[Len(wkStack) - 1].next ]
    /\ UNCHANGED << wkDoc, wkRemoved, wkVisits >>
    /\ UNCHANGED othersThanWk

WkNext ==
    \/ RemoveBlockquotesCall
    \/ RemoveBlockquotesPass
    \/ RemoveBlockquotesReturn

\* removeBlockquotes is sequential code of one goroutine that waits for
\* nothing: a step that can be taken is taken
SpecWalk == WkInit /\ [][WkNext]_vars /\ WF_vars(WkNext)

\* ------------------------------------------------------------------------
\* Specification of TokenMiddleware: Init draws the HTTP request, the
\* action is the handler the middleware returns.
\* ------------------------------------------------------------------------

MwInit ==
    /\ TbIdle
    /\ EgIdle
    /\ SqIdle
    /\ CcIdle
    /\ SvIdle
    /\ WkIdle
    /\ mwPc = "request"
    /\ mwReq \in [ query : Queries, authorization : Authorizations ]
    /\ mwNext = << >>

\* the http.HandlerFunc of TokenMiddleware, next.ServeHTTP(w, r) included
ServeHTTP ==
    /\ mwPc = "request"
    /\ mwPc' = "done"
    /\ mwNext' = Append(mwNext, TokenMiddleware(mwReq.query, mwReq.authorization))
    /\ UNCHANGED mwReq
    /\ UNCHANGED othersThanMw

MwNext == ServeHTTP

SpecMiddleware == MwInit /\ [][MwNext]_vars

\* ------------------------------------------------------------------------
\* All parts together
\* ------------------------------------------------------------------------

Init == TbInit \/ EgInit \/ SqInit \/ CcInit \/ SvInit \/ WkInit \/ MwInit

Next ==
    \/ CallTruncateBody
    \/ CallPrepareBody
    \/ CallTruncateBodyAgain
    \/ EmailGetBegin
    \/ EmailGetItem
    \/ EmailGetReturn
    \/ CallStripBlockquotes
    \/ \E c \in Calls : CcBegin(c)
    \/ \E c \in Calls : CcItem(c)
    \/ \E c \in Calls : CcReturn(c)
    \/ StartServer
    \/ CallMailboxGet
    \/ CallMailboxSet
    \/ CallEmailQuery
    \/ CallEmailGet
    \/ CallEmailCreate
    \/ CallEmailMove
    \/ CallEmailFlag
    \/ CallEmailDelete
    \/ CallIdentityGet
    \/ CallEmailSubmissionSet
    \/ CallSieveGet
    \/ CallSieveSet
    \/ CallSieveValidate
    \/ CallUnknownTool
    \/ RemoveBlockquotesCall
    \/ RemoveBlockquotesPass
    \/ RemoveBlockquotesReturn
    \/ ServeHTTP

Spec == Init /\ [][Next]_vars

\* ========================================================================
\* Properties
\* ========================================================================

TbDone(fn) == tbPc = "done" /\ tbFn = fn

\* the limit PrepareBody works with
TbEffectiveLimit ==
    IF tbFn = "PrepareBody" /\ tbLimit <= 0 THEN DefaultMaxBodyChars ELSE tbLimit

Max(a, b) == IF a >= b THEN a ELSE b

C2_NoOpWithinLimit ==
    (TbDone("TruncateBody") /\ tbLimit >= Len(tbText)) => tbRun.result = tbText

\* the boundary: a non-empty text exactly as long as the limit
C2_Witness ==
    /\ TbDone("TruncateBody")
    /\ Len(tbText) > 0
    /\ tbLimit = Len(tbText)
    /\ tbRun.result = tbText

\* the result is a prefix of text followed by one marker
IsPrefixPlusMarker(result, text) ==
    \E k \in 0..Len(text) : result = Prefix(text, k) \o truncationMarker

\* C3: the marker is appended when and only when truncation occurred: if
\* len(text) > limit the result ends with the marker (a prefix of text, then
\* the marker), otherwise the result is text; a result shorter than the
\* input ends with the marker.
C3_MarkerIffTruncated ==
    TbDone("TruncateBody") =>
        /\ Len(tbText) > tbLimit =>
              /\ HasSuffix(tbRun.result, truncationMarker)
              /\ IsPrefixPlusMarker(tbRun.result, tbText)
        /\ Len(tbText) <= tbLimit => tbRun.result = tbText
        /\ Len(tbRun.result) < Len(tbText) =>
              HasSuffix(tbRun.result, truncationMarker)

\* a hard cut: the text has no line break, the result is shorter than it
C3_Witness ==
    /\ TbDone("TruncateBody")
    /\ LastIndexNL(tbText) = -1
    /\ tbLimit > Len(truncationMarker)
    /\ Len(tbRun.result) < Len(tbText)
    /\ HasSuffix(tbRun.result, truncationMarker)

\* C4: when len(text) > limit and limit - len(truncationMarker) <= 0 the
\* result is the marker alone and no slice of text is taken; a slice that
\* is taken has a positive bound.
C4_DegenerateLimit ==
    TbDone("TruncateBody") =>
        /\ (Len(tbText) > tbLimit /\ tbLimit - Len(truncationMarker) <= 0) =>
              /\ tbRun.result = truncationMarker
              /\ tbRun.slice = -1
              /\ tbRun.cut = -1
        /\ tbRun.slice # -1 => (tbRun.slice > 0 /\ tbRun.cut > 0)

\* the limit equals the marker's length, the text is longer
C4_Witness ==
    /\ TbDone("TruncateBody")
    /\ tbLimit = Len(truncationMarker)
    /\ Len(tbText) > tbLimit
    /\ tbRun.result = truncationMarker

\* the handler got past the switch on the response and into the loop
EgInLoop == egPc \in { "loop", "return" } \/ (egPc = "done" /\ ~egResult.IsError)

\* the handler returned the text of the loop
EgReturnedText == egPc = "done" /\ ~egResult.IsError

\* C5: the characters written into the email_get response, the advisory
\* included, never exceed the initial budget plus len(truncationMarker).
C5_TotalWithinBudgetPlusMarker ==
    EgInLoop => Len(egSb) <= egMaxChars + Len(truncationMarker)

\* the omitted count the handler reports: 0 when it computed none
EgOmittedReported == IF egOmitted = -1 THEN 0 ELSE egOmitted

\* C6: after the loop, included plus the omitted count reported equals the
\* number of input emails; an advisory reports N of M with M = len(items)
\* and N = M - included.
C6_IncludedPlusOmitted ==
    (egPc = "return" \/ EgReturnedText) =>
        /\ egIncluded + EgOmittedReported = Len(egList)
        /\ egLast.broke <=> egOmitted # -1
        /\ egLast.broke =>
              HasSuffix(egSb, Advisory(Len(egList) - egIncluded, Len(egList),
                                       egMaxChars))

\* one email written, two omitted
C6_Witness ==
    /\ EgReturnedText
    /\ egIncluded >= 1
    /\ egOmitted >= 2

\* one step of the loop keeps the written emails a prefix of the list
C7_Step ==
    /\ egLast.broke =>
          (egSb' = egSb /\ egIncluded' = egIncluded /\ egI' = egI /\ egPc' # "loop")
    /\ (egPc = "loop" /\ ~egLast'.broke) =>
          /\ egLast'.item = egI
          /\ egSb' = egSb \o RenderHeader(egI, egList[egI + 1], egIn.FullHeaders)
                          \o egLast'.written
          /\ egIncluded' = egIncluded + 1
          /\ egI' = egI + 1
    /\ (egPc = "loop" /\ egLast'.broke) =>
          /\ egSb' = egSb \o Advisory(Len(egList) - egIncluded, Len(egList), egMaxChars)
          /\ egIncluded' = egIncluded
          /\ egPc' = "return"

\* C7: the emails written are a prefix of the input list in input order
\* (the emails at Go indices 0 .. included-1, each appended in turn); once
\* one email does not fit the loop is over: nothing more is written and the
\* omitted emails are the suffix from that email on.
C7_PrefixThenTerminal ==
    /\ [](EgInLoop => (egIncluded = egI /\ egIncluded <= Len(egList)))
    /\ [](EgInLoop /\ egLast.broke => egOmitted = Len(egList) - egI)
    /\ [][C7_Step]_vars

\* the loop broke after one email, with two emails left
C7_Witness ==
    /\ EgReturnedText
    /\ egLast.broke
    /\ egIncluded >= 1
    /\ Len(egList) - egIncluded >= 2

\* the request of the scenario: long bodies under the default budget
EgScenario == egList = ScenarioList /\ egMaxChars = defaultMaxChars

\* C8 (as stated): with three emails of 20000-character bodies and a budget
\* of 50000 the first two are included, the third is omitted with an
\* advisory reporting 1 of 3, and the output stays within the budget bound.
C8_TwoIncludedOneOmitted ==
    (EgReturnedText /\ EgScenario) =>
        /\ egIncluded = ScenarioEmails - 1
        /\ egOmitted = 1
        /\ HasSuffix(egSb, Advisory(1, ScenarioEmails, egMaxChars))
        /\ Len(egSb) <= egMaxChars + Len(truncationMarker)

\* what email_get writes for the scenario's emails up to the k-th
RECURSIVE ScenarioCapped(_)
ScenarioCapped(k) ==
    IF k = 0 THEN << >>
    ELSE ScenarioCapped(k - 1)
         \o RenderHeader(k - 1, ScenarioList[k], FALSE)
         \o Repeat("a", DefaultMaxBodyChars - Len(truncationMarker))
         \o truncationMarker

\* C8 (amended): with three emails of 20000-character bodies and a budget
\* of 50000 all three emails are included, each with its body cut to
\* DefaultMaxBodyChars characters ending with the marker; no advisory is
\* written and the output stays within the budget.
C8_AllIncludedCapped ==
    (EgReturnedText /\ EgScenario) =>
        /\ egIncluded = ScenarioEmails
        /\ egOmitted = -1
        /\ ~egLast.broke
        /\ egSb = ScenarioCapped(ScenarioEmails)
        /\ Len(egSb) <= egMaxChars

\* the scenario, returned
C8_Witness ==
    /\ EgReturnedText
    /\ EgScenario
    /\ egIn.MaxChars = defaultMaxChars
    /\ Len(egLast.body) = DefaultMaxBodyChars

NonEmptyBody(b) == IF b = << >> THEN noBodyContent ELSE b

\* C9: a plain-text body value, when present, is the one used, reply-
\* stripped (and capped) only, and the HTML body is not consulted; with
\* only an HTML body value it goes through StripBlockquotes, HTML-to-text
\* and reply stripping; with neither the body is "(no body content)".  The
\* body written for an included email is never empty.
C9_BodySelection ==
    (EgInLoop /\ egLast.item # -1) =>
        LET e == egList[egLast.item + 1]
            t == FirstWithValue(e.TextBody, e.BodyValues)
            h == FirstWithValue(e.HTMLBody, e.BodyValues)
        IN  /\ t # 0 =>
                  LET plain    == ValueOf(e.BodyValues[e.TextBody[t]])
                      stripped == erpParse(plain)
                  IN  /\ egLast.body = NonEmptyBody(PrepareBody(plain, 0))
                      /\ egLast.stages = << "PrepareBody" >>
                      /\ (stripped # << >> /\ Len(stripped) <= DefaultMaxBodyChars)
                             => egLast.body = stripped
            /\ (t = 0 /\ h # 0) =>
                  LET markup == ValueOf(e.BodyValues[e.HTMLBody[h]])
                  IN  /\ egLast.body = NonEmptyBody(PrepareBody(
                                           HTML2Text(StripBlockquotes(markup)), 0))
                      /\ egLast.stages = << "StripBlockquotes", "HTML2Text",
                                            "PrepareBody" >>
            /\ (t = 0 /\ h = 0) =>
                  /\ egLast.body = noBodyContent
                  /\ egLast.stages = << >>
            /\ egLast.body # << >>
            /\ ~egLast.broke => egLast.written # << >>

\* an included email that has both a plain-text and an HTML body value
C9_Witness ==
    /\ EgInLoop
    /\ egLast.item # -1
    /\ ~egLast.broke
    /\ LET e == egList[egLast.item + 1]
       IN  /\ FirstWithValue(e.TextBody, e.BodyValues) # 0
           /\ FirstWithValue(e.HTMLBody, e.BodyValues) # 0
           /\ egLast.stages = << "PrepareBody" >>
           /\ egLast.written # << >>

\* C10: a non-positive limit is replaced by the default before use:
\* PrepareBody with maxChars <= 0 gives the result of maxChars = 4000 and
\* email_get with max_chars <= 0 gives the result of max_chars = 50000; a
\* positive limit is used as given.
C10_NonPositiveIsDefault ==
    /\ TbDone("PrepareBody") =>
          tbRun.result = IF tbLimit <= 0
                         THEN PrepareBody(tbText, DefaultMaxBodyChars)
                         ELSE TruncateBody(erpParse(tbText), tbLimit)
    /\ EgReturnedText =>
          LET m == IF egIn.MaxChars <= 0 THEN defaultMaxChars ELSE egIn.MaxChars
          IN  /\ egMaxChars = m
              /\ egResult.Text = RunLoop(egList, egIn.FullHeaders, m, 0, << >>, 0).sb

\* email_get with max_chars = 0 that returned every email
C10_Witness ==
    /\ EgReturnedText
    /\ egIn.MaxChars = 0
    /\ egMaxChars = defaultMaxChars
    /\ egIncluded = Len(egList)
    /\ egIncluded >= 2

\* ------------------------------------------------------------------------
\* StripBlockquotes
\* ------------------------------------------------------------------------

SqDone == sqPc = "done"

\* The nodes below n in document order, each with its depth and whether it
\* is a blockquote element or lies inside one.
RECURSIVE Preorder(_, _, _)
Preorder(n, depth, inside) ==
    LET quoted == inside \/ n.tag = "blockquote"
    IN  << [ depth |-> depth, tag |-> n.tag, data |-> n.data, quoted |-> quoted ] >>
        \o FlattenSeq([ i \in 1..Len(n.kids) |->
                          Preorder(n.kids[i], depth + 1, quoted) ])

HasBlockquoteTag(markup) ==
    \E i \in 1..Len(markup) : markup[i] = StartTag("blockquote")

\* C11: when the markup parses and renders, the result holds no blockquote
\* element and no node that was inside one, at whatever depth the element
\* was; every other node of the parsed document is kept, in document order
\* and at its depth (so with its parent and among the same siblings).
C11_BlockquotesRemovedAtAnyDepth ==
    (SqDone /\ sqRun.failed = "none") =>
        LET before == Preorder(sqRun.parsed, 0, FALSE)
            after  == Preorder(sqRun.stripped, 0, FALSE)
        IN  /\ after = SelectSeq(before, LAMBDA r : ~r.quoted)
            /\ sqRun.result = RenderNode(sqRun.stripped)
            /\ ~HasBlockquoteTag(sqRun.result)

\* a blockquote inside a blockquote inside another element, followed by a
\* sibling that is kept, has been stripped
C11_Witness ==
    /\ SqDone
    /\ sqRun.failed = "none"
    /\ LET before == Preorder(sqRun.parsed, 0, FALSE)
       IN  /\ \E i \in 1..Len(before) :
                 /\ before[i].tag = "blockquote"
                 /\ before[i].depth >= 5
                 /\ \E j \in 1..(i - 1) :
                       before[j].tag = "blockquote" /\ before[j].depth < before[i].depth
           /\ Len(Preorder(sqRun.stripped, 0, FALSE)) < Len(before)
           /\ Len(Preorder(sqRun.stripped, 0, FALSE)) > 4

\* C12 as stated: markup without a blockquote element comes back as the
\* very same string.
C12_UnchangedWithoutBlockquote ==
    (SqDone /\ ~HasBlockquoteTag(sqRaw)) => sqRun.result = sqRaw

\* the markup is the serialised form of a complete document: html, head and
\* body are written out and no special character stands unescaped
IsSerialisedDocument(markup) ==
    /\ Len(markup) >= 6
    /\ markup[1] = StartTag("html")
    /\ markup[2] = StartTag("head")
    /\ markup[3] = EndTag("head")
    /\ markup[4] = StartTag("body")
    /\ markup[Len(markup) - 1] = EndTag("body")
    /\ markup[Len(markup)] = EndTag("html")
    /\ \A i \in 1..Len(markup) : markup[i] \notin { "&", "<", ">" }

\* C12 (amended): for markup without a blockquote element no node is
\* removed and the result is the serialisation of the parsed document: it
\* has the text of the input, and it is the input itself when the input is
\* the serialised form of a complete document.
C12_ReserialisedWithoutBlockquote ==
    (SqDone /\ sqRun.failed = "none" /\ ~HasBlockquoteTag(sqRaw)) =>
        /\ sqRun.stripped = sqRun.parsed
        /\ HTML2Text(sqRun.result) = HTML2Text(sqRaw)
        /\ IsSerialisedDocument(sqRaw) => sqRun.result = sqRaw

\* a complete document without a blockquote, with elements and text
C12_Witness ==
    /\ SqDone
    /\ sqRun.failed = "none"
    /\ ~HasBlockquoteTag(sqRaw)
    /\ IsSerialisedDocument(sqRaw)
    /\ Len(sqRaw) >= 10
    /\ sqRun.result = sqRaw

\* C13: when html.Parse or html.Render fails the function returns its
\* argument as it was; the result is always either the argument or the
\* complete rendering of the stripped document.
C13_FailOpen ==
    SqDone =>
        /\ sqRun.failed # "none" => sqRun.result = sqRaw
        /\ sqRun.failed = "none" => sqRun.result = RenderNode(sqRun.stripped)
        /\ sqRun.failed = (IF sqEnv.parseErr THEN "parse"
                           ELSE IF sqEnv.renderErr THEN "render" ELSE "none")

\* html.Render failed on a document from which blockquotes had been removed
C13_Witness ==
    /\ SqDone
    /\ sqRun.failed = "render"
    /\ HasBlockquoteTag(sqRaw)
    /\ sqRun.stripped # sqRun.parsed
    /\ sqRun.result = sqRaw

\* ------------------------------------------------------------------------
\* email_get: degenerate inputs and the remaining budget
\* ------------------------------------------------------------------------

\* the token resolves and the JMAP server answers the request with a
\* GetResponse in which no email is missing
EgAnswered ==
    /\ jmapClient(egEnv).err = "nil"
    /\ egEnv.accountID # ""
    /\ egEnv.doOK
    /\ Len(egEnv.responses) > 0
    /\ egEnv.responses[1].type = "GetResponse"
    /\ egEnv.responses[1].NotFound = << >>

HasNoBody(e) ==
    FirstWithValue(e.TextBody, e.BodyValues) = 0
    /\ FirstWithValue(e.HTMLBody, e.BodyValues) = 0

\* a budget that is not positive, no email asked for or returned, or an
\* email without any body representation
EgDegenerate ==
    \/ egIn.MaxChars <= 0
    \/ Len(egIn.EmailIDs) = 0
    \/ Len(egEnv.responses[1].List) = 0
    \/ \E k \in 1..Len(egEnv.responses[1].List) : HasNoBody(egEnv.responses[1].List[k])

\* the length of the advisory the handler wrote, 0 when it wrote none
EgAdvisoryLen ==
    IF egOmitted = -1 THEN 0 ELSE Len(Advisory(egOmitted, Len(egList), egMaxChars))

\* C14 as stated: every degenerate input ends in a text result, never in an
\* error result.
C14_DegenerateGivesText ==
    (egPc = "done" /\ EgAnswered /\ EgDegenerate) =>
        (~egResult.IsError /\ egResult.err = "nil")

\* C14 (amended): with a budget that is not positive or an email without
\* body the handler returns a text result, not empty, of at most maxChars
\* plus the marker plus the advisory characters, the missing body written as
\* the placeholder (truncated like any body); an empty email_ids or an empty list in the response is
\* an error result; the Go error is nil in every case.
C14_DegenerateOutcome ==
    (egPc = "done" /\ EgAnswered) =>
        /\ egResult.err = "nil"
        /\ egResult.IsError <=>
              (Len(egIn.EmailIDs) = 0 \/ Len(egEnv.responses[1].List) = 0)
        /\ ~egResult.IsError =>
              /\ egResult.Text = egSb
              /\ Len(egResult.Text) > 0
              /\ Len(egResult.Text)
                    <= egMaxChars + Len(truncationMarker) + EgAdvisoryLen
              /\ (egIncluded = 1 /\ HasNoBody(egList[1])) =>
                    /\ egLast.body = noBodyContent
                    /\ egLast.written = TruncateBody(noBodyContent, egLast.remaining)

\* a request with a budget that is not positive for one email without body
C14_Witness ==
    /\ egPc = "done"
    /\ EgAnswered
    /\ egIn.MaxChars <= 0
    /\ ~egResult.IsError
    /\ egIncluded = 1
    /\ HasNoBody(egList[1])
    /\ egLast.written = noBodyContent

\* the budget that is left: the initial budget minus the characters written
EgBudgetLeft == egMaxChars - Len(egSb)

C15_Step ==
    egPc = "loop" =>
        /\ EgBudgetLeft' <= EgBudgetLeft
        /\ egLast'.remaining = EgBudgetLeft - Len(egLast'.hdr)
        /\ egLast'.broke <=> egLast'.remaining <= 0
        /\ ~egLast'.broke =>
              /\ egLast'.remaining > 0
              /\ EgBudgetLeft' > - Len(truncationMarker)
              /\ EgBudgetLeft' < 0 => egLast'.remaining < Len(truncationMarker)

AloneResult(c) ==
    LET o == EmailGetOutcome(ccReq[c].in, CcEnv(c))
    IN  IF o.ok
        THEN Return(textResult(
                 RunLoop(ccReq[c].list, ccReq[c].in.FullHeaders,
                         EffectiveMaxChars(ccReq[c].in.MaxChars), 0, << >>, 0).sb))
        ELSE Return(o.result)

\* C16: whatever the interleaving of two concurrent email_get calls, each
\* returns what it returns when it runs alone, and while it runs its buffer
\* holds only what its own passes wrote.
C16_ConcurrentAsAlone ==
    \A c \in Calls :
        /\ ccPc[c] = "done" => ccResult[c] = AloneResult(c)
        /\ ccPc[c] \in { "loop", "return" } =>
              /\ ccMaxChars[c] = EffectiveMaxChars(ccReq[c].in.MaxChars)
              /\ ccIncluded[c] = ccI[c]
              /\ HasPrefix(AloneResult(c).Text, ccSb[c])

\* call 1 returned its text while call 2 was in the middle of its loop
C16_Witness ==
    /\ ccPc[1] = "done"
    /\ ~ccResult[1].IsError
    /\ ccIncluded[1] >= 2
    /\ ccPc[2] = "loop"
    /\ ccI[2] >= 1
    /\ ccReq[1] # ccReq[2]

\* call c has been through jmapClient
CcResolved(c) == ccPc[c] \notin { "idle", "begin" }

\* C17: the token a call uses is the token of its own context when that is
\* not empty, else the static token when that is not empty; with neither
\* there is an error, no client is created and nothing is authenticated;
\* the token of another call's context is never used.
C17_TokenResolution ==
    \A c \in Calls :
        CcResolved(c) =>
            LET own == TokenFromContext(ccReq[c].ctx)
                cl  == ccClient[c]
            IN  /\ own # "" => (cl.token = own /\ cl.client = "client")
                /\ (own = "" /\ ccStatic # "") =>
                      (cl.token = ccStatic /\ cl.client = "client")
                /\ (own = "" /\ ccStatic = "") =>
                      /\ cl = [ client |-> "nil", token |-> "",
                                err |-> "no JMAP auth token available" ]
                      /\ ccPc[c] = "done"
                      /\ ccResult[c] = Return(errorResult(cl.err))
                /\ \A d \in Calls \ { c } :
                      TokenFromContext(ccReq[d].ctx) # "" =>
                          cl.token # TokenFromContext(ccReq[d].ctx)

\* call 1 used the token of its context although the server has a static
\* one; call 2, without a token while call 1 has one, got the static one
C17_Witness ==
    /\ CcResolved(1)
    /\ CcResolved(2)
    /\ ccStatic = "s"
    /\ ccClient[1].token = "c1"
    /\ TokenFromContext(ccReq[2].ctx) = ""
    /\ ccClient[2].token = "s"


\* ------------------------------------------------------------------------
\* The server and its tools
\* ------------------------------------------------------------------------

SvServing == svPc = "serving"

\* C18: email_submission_set is registered, and so callable, exactly when
\* the server was started with sending enabled; when the flag is left at
\* its default no call of email_submission_set reaches the handler and,
\* whatever tools have been called, no EmailSubmission/set request has
\* been sent.
C18_SubmissionGated ==
    SvServing =>
        /\ svServer.enableSend <=> "-enable-send" \in svArgs
        /\ "email_submission_set" \in svServer.tools <=> svServer.enableSend
        /\ svLast.tool = "email_submission_set" =>
              (svLast.handled <=> svServer.enableSend)
        /\ ~svServer.enableSend =>
              /\ ~svSubmitted
              /\ ~Submits(svLast.sent)

\* a server started without -enable-send has turned down a call of
\* email_submission_set, after which nothing has been submitted
C18_Witness ==
    /\ SvServing
    /\ svArgs = {}
    /\ svLast.tool = "email_submission_set"
    /\ ~svLast.handled
    /\ svLast.result.err = "unknown tool"
    /\ ~svSubmitted

\* C19: the three Sieve tools are registered only when the server was
\* built with the Sieve option; without it none of them is registered.
C19_SieveGated ==
    SvServing =>
        /\ svServer.enableSieve <=> svSieve
        /\ ~svServer.enableSieve => svServer.tools \cap SieveTools = {}

\* the three kinds of set response
SetResponses ==
    { "mailbox.SetResponse", "email.SetResponse", "emailsubmission.SetResponse",
      "sievescript.SetResponse" }

\* the input that the tool's schema or its handler turns down
InvalidInput(tool, in) ==
    CASE tool \in { "email_get", "email_move", "email_delete" } -> Len(in.EmailIDs) = 0
      [] tool = "email_flag" -> Len(in.EmailIDs) = 0 \/ flagPatch(in) = {}
      [] tool = "email_query" ->
            \/ in.Before # << >> /\ parseDate(in.Before, EndOfDay).err # "nil"
            \/ in.After # << >> /\ parseDate(in.After, StartOfDay).err # "nil"
      [] tool = "email_submission_set" -> in.EmailID = ""
      [] tool = "mailbox_set" -> in.Create = {} /\ in.Update = {} /\ in.Destroy = {}
      [] tool = "sieve_set" ->
            \/ in.ID = "" /\ in.Name = "" /\ in.Content = "" /\ in.Destroy = {}
            \/ in.ID = "" /\ in.Name # "" /\ in.Content = ""
      [] OTHER -> FALSE

\* what the call asked method call i of its request k to do, if that is a
\* set method
RequestedOps(tool, in, k, i) ==
    CASE tool = "mailbox_set" /\ k = 1 ->
            (IF in.Create # {} THEN { "create" } ELSE {})
            \cup (IF in.Update # {} THEN { "update" } ELSE {})
            \cup (IF in.Destroy # {} THEN { "destroy" } ELSE {})
      [] tool = "sieve_set" /\ k = 1 ->
            (IF in.ID = "" THEN { "create" } ELSE { "update" })
            \cup (IF in.Destroy # {} THEN { "destroy" } ELSE {})
      [] tool = "email_create" /\ k = 2 -> { "create" }
      [] tool \in { "email_move", "email_flag" } /\ k = 1 -> { "update" }
      [] tool = "email_delete" /\ k = 1 /\ in.Permanent -> { "destroy" }
      [] tool = "email_delete" /\ k = 2 /\ ~in.Permanent -> { "update" }
      [] tool = "email_submission_set" /\ k = 2 /\ i = 1 -> { "create" }
      [] tool = "email_submission_set" /\ k = 2 /\ i = 2 -> { "update" }
      [] OTHER -> {}

\* a request failed: it was not answered, a method call of it has no
\* response, was answered with a method error or with a response of another
\* type, or its set response lists an object that could not be created,
\* updated or destroyed as asked
RequestFailed(tool, in, k, ok, responses, expected) ==
    \/ ~ok
    \/ Len(responses) < Len(expected)
    \/ \E i \in 1..Len(expected) :
          LET ops == RequestedOps(tool, in, k, i)
          IN  \/ responses[i].type # expected[i].type
              \/ /\ responses[i].type \in SetResponses
                 /\ \/ "create" \in ops /\ responses[i].NotCreated # {}
                    \/ "update" \in ops /\ responses[i].NotUpdated # {}
                    \/ "destroy" \in ops /\ responses[i].NotDestroyed # {}

\* the method call that shows that the tool's second request was sent
SecondRequest(tool) ==
    CASE tool = "email_create" -> "Email/set create"
      [] tool = "email_delete" -> "Email/set update"
      [] tool = "email_submission_set" -> "EmailSubmission/set"
      [] OTHER -> "none"

Sent(call, method) == \E i \in 1..Len(call.sent) : call.sent[i] = method

\* something failed in the call: the input is invalid, there is no token,
\* the session could not be opened, the account is missing, a transfer or
\* a request that the handler made failed
CallFailed(call) ==
    LET tool == call.tool
        in   == call.in
        env  == call.env
    IN  \/ InvalidInput(tool, in)
        \/ env.ctxToken = "" /\ env.staticToken = ""
        \/ ~env.authOK
        \/ (IF tool \in SieveTools THEN env.sieveAccountID ELSE env.accountID) = ""
        \/ Sent(call, "upload") /\ ~env.uploadOK
        \/ Sent(call, "download") /\ (~env.downloadOK \/ ~env.readOK)
        \/ /\ \E i \in 1..Len(call.sent) : call.sent[i] \notin { "upload", "download" }
           /\ RequestFailed(tool, in, 1, env.doOK, env.responses,
                            OkResponses(tool, in))
        \/ /\ Sent(call, SecondRequest(tool))
           /\ RequestFailed(tool, in, 2, env.do2OK, env.responses2,
                            OkResponses2(tool, in))

\* C20: a tool handler always returns a nil Go error, and whenever
\* something failed in the call (the token, the session, the account, the
\* input, a method call, the type of a response, an object of a set
\* request) the result has IsError set.
C20_FailuresAreToolErrors ==
    (SvServing /\ svLast.handled) =>
        /\ svLast.result.err = "nil"
        /\ CallFailed(svLast) => svLast.result.IsError


\* ------------------------------------------------------------------------
\* TruncateBody: where the cut is made
\* ------------------------------------------------------------------------

\* TruncateBody has truncated tbText with a positive budget
TbTruncatedWithBudget ==
    /\ TbDone("TruncateBody")
    /\ Len(tbText) > tbLimit
    /\ tbLimit - Len(truncationMarker) > 0

\* the indices i > 0 (counted from 0, as the code counts) of the line breaks
\* inside text[:budget]
BreaksInside(text, budget) == { i \in 1..(budget - 1) : text[i + 1] = "\n" }

\* the result without its last Len(truncationMarker) characters
KeptPart(result) == SubSeq(result, 1, Len(result) - Len(truncationMarker))

\* C21: when TruncateBody truncates with budget = limit - len(marker) > 0,
\* the result is a kept part followed at once by the marker; the kept part
\* is text[:i] for the index i of the last line break inside text[:budget]
\* when there is one at an index > 0, so that it stops before that line
\* break, and text[:budget] otherwise.
C21_CutAtLastLineBreak ==
    TbTruncatedWithBudget =>
        LET budget == tbLimit - Len(truncationMarker)
            breaks == BreaksInside(tbText, budget)
            kept   == KeptPart(tbRun.result)
        IN  /\ Len(tbRun.result) >= Len(truncationMarker)
            /\ tbRun.result = kept \o truncationMarker
            /\ HasPrefix(tbText, kept)
            /\ breaks # {} =>
                  /\ kept = Prefix(tbText, SetMax(breaks))
                  /\ Len(kept) = SetMax(breaks)
                  /\ tbText[Len(kept) + 1] = "\n"
            /\ breaks = {} => kept = Prefix(tbText, budget)

\* a text with two line breaks in a row inside text[:budget] was cut at the
\* second of them, short of the budget
C21_Witness ==
    /\ TbTruncatedWithBudget
    /\ BreaksInside(tbText, tbLimit - Len(truncationMarker)) = { 1, 2 }
    /\ Len(KeptPart(tbRun.result)) = 2
    /\ tbLimit - Len(truncationMarker) > 3


\* ------------------------------------------------------------------------
\* The loop of email_get: one item
\* ------------------------------------------------------------------------

\* what one pass of the loop does with the email at index egI
C22_Step ==
    /\ egPc = "loop" =>
          LET e         == egList[egI + 1]
              hdr       == RenderHeader(egI, e, egIn.FullHeaders)
              remaining == egMaxChars - Len(egSb) - Len(hdr)
          IN  /\ egLast'.remaining = remaining
              /\ egLast'.hdr = hdr
              /\ egLast'.broke <=> remaining <= 0
              /\ remaining <= 0 =>
                    /\ egSb' = egSb \o Advisory(Len(egList) - egIncluded, Len(egList),
                                                egMaxChars)
                    /\ egIncluded' = egIncluded
                    /\ egPc' = "return"
              /\ remaining > 0 =>
                    /\ egSb' = egSb \o hdr \o TruncateBody(ItemBody(e), remaining)
                    /\ egIncluded' = egIncluded + 1
    /\ egPc = "return" => egSb' = egSb

\* C22: at each item the loop computes remaining = maxChars - characters
\* written so far - length of the item's header; the item is omitted
\* exactly when remaining <= 0, and then only the advisory is appended and
\* nothing is written afterwards; otherwise the whole header is written,
\* followed by TruncateBody(body, remaining).
C22_OmittedIffNothingRemains == [][C22_Step]_vars

\* the header of the second email used up exactly what was left
C22_Witness ==
    /\ EgReturnedText
    /\ egLast.broke
    /\ egLast.remaining = 0
    /\ egLast.item = 1
    /\ egIncluded = 1


\* ------------------------------------------------------------------------
\* The omission advisory
\* ------------------------------------------------------------------------

AdvisoryWord == << "T", "R", "U", "N", "C", "A", "T", "E", "D", ":" >>

\* the places of the text where an advisory is
AdvisoryAt(text) ==
    { i \in 1..(Len(text) - Len(AdvisoryWord) + 1) :
        /\ text[i] = "T"
        /\ SubSeq(text, i, i + Len(AdvisoryWord) - 1) = AdvisoryWord }

\* C23: the advisory is appended exactly when an email was omitted: while
\* no email has been omitted the output holds no advisory, and when all
\* emails fit the omitted count is 0; once an email is omitted the output
\* holds one advisory, it ends the output, and it reports an omitted count
\* of at least 1.
C23_AdvisoryIffOmitted ==
    EgInLoop =>
        /\ Cardinality(AdvisoryAt(egSb)) = (IF egLast.broke THEN 1 ELSE 0)
        /\ (egPc = "return" \/ EgReturnedText) =>
              /\ egLast.broke <=> egIncluded < Len(egList)
              /\ ~egLast.broke => (EgOmittedReported = 0 /\ egIncluded = Len(egList))
              /\ egLast.broke =>
                    /\ egOmitted >= 1
                    /\ HasSuffix(egSb, Advisory(egOmitted, Len(egList), egMaxChars))
        /\ EgReturnedText => egResult.Text = egSb

\* three emails were written and none omitted: the output has no advisory
C23_Witness ==
    /\ EgReturnedText
    /\ Len(egList) = 3
    /\ egIncluded = 3
    /\ ~egLast.broke
    /\ AdvisoryAt(egResult.Text) = {}

\* ------------------------------------------------------------------------
\* removeBlockquotes: the walk over the tree
\* ------------------------------------------------------------------------

\* the paths of the nodes of the tree below n, n itself as the empty path
RECURSIVE PathsOf(_)
PathsOf(n) ==
    { << >> } \cup UNION { { << i >> \o p : p \in PathsOf(n.kids[i]) } :
                           i \in 1..Len(n.kids) }

\* whether the node lies inside a blockquote element other than itself
InsideBlockquote(doc, path) ==
    \E k \in 0..(Len(path) - 1) : NodeAt(doc, SubSeq(path, 1, k)).tag = "blockquote"

\* the nodes the walk has to examine: all but the document node and the
\* nodes inside a blockquote
ToExamine(doc) ==
    { p \in PathsOf(doc) : p # << >> /\ ~InsideBlockquote(doc, p) }

\* the tree without the detached nodes
RECURSIVE Pruned(_, _, _)
Pruned(doc, removed, path) ==
    LET n    == NodeAt(doc, path)
        left == SelectSeq([ i \in 1..Len(n.kids) |-> i ],
                          LAMBDA i : (path \o << i >>) \notin removed)
    IN  [ n EXCEPT !.kids = [ j \in 1..Len(left) |->
                                Pruned(doc, removed, path \o << left[j] >>) ] ]

WkSafe ==
    /\ \A i, j \in 1..Len(wkVisits) : wkVisits[i] = wkVisits[j] => i = j
    /\ \A i \in 1..Len(wkVisits) : wkVisits[i] \in ToExamine(wkDoc)
    /\ \A k \in 1..Len(wkStack) :
         /\ wkStack[k].n \notin wkRemoved
         /\ ~InsideBlockquote(wkDoc, wkStack[k].n)
         /\ NodeAt(wkDoc, wkStack[k].n).tag # "blockquote"
    /\ wkPc = "done" =>
         /\ { wkVisits[i] : i \in 1..Len(wkVisits) } = ToExamine(wkDoc)
         /\ wkRemoved = { p \in ToExamine(wkDoc) : NodeAt(wkDoc, p).tag = "blockquote" }
         /\ Pruned(wkDoc, wkRemoved, << >>) = removeBlockquotes(wkDoc)

\* C24: the walk of removeBlockquotes ends on every tree; no node is
\* examined twice, no node inside a removed blockquote is examined or
\* descended into, and when the walk has ended every other node below the
\* document node has been examined, the siblings that follow a removed
\* blockquote included.
C24_WalkEndsEachNodeOnce == <>(wkPc = "done") /\ []WkSafe

\* two adjacent blockquotes were removed and the sibling after them examined
C24_Witness ==
    /\ wkPc = "done"
    /\ \E p \in wkRemoved :
         LET n == SubSeq(p, 1, Len(p) - 1)
             c == p[Len(p)]
         IN  /\ (n \o << c + 1 >>) \in wkRemoved
             /\ \E i \in 1..Len(wkVisits) : wkVisits[i] = n \o << c + 2 >>

\* ------------------------------------------------------------------------
\* TokenMiddleware: where the token comes from
\* ------------------------------------------------------------------------

MwDone == mwPc = "done"

\* the Authorization header has the form "Bearer <token>"
IsBearer(authorization) == HasPrefix(authorization, BearerPrefix)

\* C25: the token handed on is the jmap_token query parameter when that is
\* not empty, otherwise the text after "Bearer " of a Bearer Authorization
\* header; with neither, or with a header of another scheme, the next
\* handler gets a context without a token; the next handler is called
\* exactly once.
C25_TokenFromQueryOrBearer ==
    MwDone =>
        /\ Len(mwNext) = 1
        /\ mwReq.query # << >> => TokenFromContext(mwNext[1]) = mwReq.query
        /\ (mwReq.query = << >> /\ IsBearer(mwReq.authorization)) =>
             BearerPrefix \o TokenFromContext(mwNext[1]) = mwReq.authorization
        /\ (mwReq.query = << >> /\ ~IsBearer(mwReq.authorization)) =>
             mwNext[1] = RequestContext

\* what holds of every request: the next handler is called once, the query
\* parameter wins, and a Bearer header gives the text after the prefix
MwQueryThenBearer ==
    MwDone =>
        /\ Len(mwNext) = 1
        /\ mwReq.query # << >> => TokenFromContext(mwNext[1]) = mwReq.query
        /\ (mwReq.query = << >> /\ IsBearer(mwReq.authorization)) =>
             BearerPrefix \o TokenFromContext(mwNext[1]) = mwReq.authorization
        /\ (mwReq.query = << >> /\ mwReq.authorization = << >>) =>
             mwNext[1] = RequestContext

\* ------------------------------------------------------------------------
\* email_submission_set: discovery before submission
\* ------------------------------------------------------------------------

SubmissionCalled == SvServing /\ svLast.handled /\ svLast.tool = "email_submission_set"

\* the discovery request was answered with a mailbox list and an identity
\* list
DiscoverySucceeded(env) ==
    /\ env.doOK
    /\ Len(env.responses) >= 2
    /\ env.responses[1].type = "mailbox.GetResponse"
    /\ env.responses[2].type = "identity.GetResponse"

\* the sender identity: the given one, else the first one listed, "" if
\* there is none
SenderIdentity(in, env) ==
    IF in.IdentityID # "" THEN in.IdentityID
    ELSE IF Len(env.responses[2].List) > 0 THEN env.responses[2].List[1]
    ELSE ""

\* the call got as far as the discovery request
Discovers(call) == Len(call.sent) >= 2

\* C26: an EmailSubmission/set request is sent only as the second request,
\* after a discovery request (Mailbox/get + Identity/get) that succeeded and
\* gave a Drafts mailbox, a Sent mailbox and a sender identity, the given
\* one or else the first listed; without one of them, with an empty
\* email_id or with a failed discovery no submission request is sent; the
\* on-success patch removes the Drafts mailbox and the $draft keyword and
\* adds the Sent mailbox.
C26_SubmitsOnlyAfterDiscovery ==
    SubmissionCalled =>
        LET in  == svLast.in
            env == svLast.env
        IN  /\ Submits(svLast.sent) =>
                 /\ svLast.sent = << "Mailbox/get", "Identity/get", "EmailSubmission/set" >>
                 /\ in.EmailID # ""
                 /\ DiscoverySucceeded(env)
                 /\ "drafts" \in env.responses[1].Roles
                 /\ "sent" \in env.responses[1].Roles
                 /\ SenderIdentity(in, env) # ""
                 /\ svLast.args[3].Create =
                        [ IdentityID |-> SenderIdentity(in, env), EmailID |-> in.EmailID ]
                 /\ DOMAIN svLast.args[3].OnSuccessUpdateEmail =
                        { << "mailboxIds", "drafts" >>, << "mailboxIds", "sent" >>,
                          << "keywords", "$draft" >> }
                 /\ svLast.args[3].OnSuccessUpdateEmail[<< "mailboxIds", "drafts" >>] = "nil"
                 /\ svLast.args[3].OnSuccessUpdateEmail[<< "keywords", "$draft" >>] = "nil"
                 /\ svLast.args[3].OnSuccessUpdateEmail[<< "mailboxIds", "sent" >>] = "true"
            /\ (\/ in.EmailID = ""
                \/ (Discovers(svLast) /\ ~DiscoverySucceeded(env))
                \/ (Discovers(svLast) /\ DiscoverySucceeded(env)
                      /\ (\/ "drafts" \notin env.responses[1].Roles
                          \/ "sent" \notin env.responses[1].Roles
                          \/ SenderIdentity(in, env) = "")))
                 => ~Submits(svLast.sent)

\* a submission with the first listed identity, one with a given identity
\* that the server does not list, and calls stopped for each reason
C26_Witness ==
    /\ SubmissionCalled
    /\ Submits(svLast.sent)
    /\ svLast.in.IdentityID = ""
    /\ svLast.args[3].Create.IdentityID = "identity"

C26_WitnessGivenIdentity ==
    /\ SubmissionCalled
    /\ Submits(svLast.sent)
    /\ svLast.in.IdentityID = "i"
    /\ svLast.env.responses[2].List = << >>

C26_WitnessNoSent ==
    /\ SubmissionCalled
    /\ Discovers(svLast)
    /\ DiscoverySucceeded(svLast.env)
    /\ "drafts" \in svLast.env.responses[1].Roles
    /\ "sent" \notin svLast.env.responses[1].Roles
    /\ ~Submits(svLast.sent)

\* ------------------------------------------------------------------------
\* email_delete: Trash unless permanent
\* ------------------------------------------------------------------------

DeleteCalled == SvServing /\ svLast.handled /\ svLast.tool = "email_delete"

\* the methods that change the mailbox store
Mutating == { "Email/set destroy", "Email/set update", "Email/set create",
              "Mailbox/set", "EmailSubmission/set" }

MutatingSent(call) == { i \in 1..Len(call.sent) : call.sent[i] \in Mutating }

\* C27: without permanent, email_delete sends no request that destroys an
\* email: its only mutating request is an Email/set whose update sets the
\* mailboxIds of the given emails to the Trash mailbox, and when no mailbox
\* has the Trash role it sends no mutating request; with permanent its only
\* request is an Email/set that destroys exactly the given email IDs.
C27_TrashUnlessPermanent ==
    DeleteCalled =>
        LET in  == svLast.in
            env == svLast.env
        IN  /\ ~in.Permanent =>
                 /\ ~Sent(svLast, "Email/set destroy")
                 /\ \A i \in MutatingSent(svLast) :
                      /\ svLast.sent[i] = "Email/set update"
                      /\ svLast.args[i].Destroy = << >>
                      /\ DOMAIN svLast.args[i].Update =
                             { in.EmailIDs[k] : k \in 1..Len(in.EmailIDs) }
                      /\ \A id \in DOMAIN svLast.args[i].Update :
                             svLast.args[i].Update[id] = [ mailboxIds |-> { "trash" } ]
                      /\ "trash" \in env.responses[1].Roles
                 /\ (Len(svLast.sent) >= 1 /\ env.doOK /\ Len(env.responses) >= 1
                       /\ env.responses[1].type = "mailbox.GetResponse"
                       /\ "trash" \notin env.responses[1].Roles)
                      => MutatingSent(svLast) = {}
            /\ in.Permanent =>
                 \A i \in 1..Len(svLast.sent) :
                      /\ svLast.sent[i] = "Email/set destroy"
                      /\ svLast.args[i].Destroy = in.EmailIDs
                      /\ svLast.args[i].Update = << >>

\* two emails were moved to the Trash, and a call found no Trash mailbox
C27_Witness ==
    /\ DeleteCalled
    /\ ~svLast.in.Permanent
    /\ Len(svLast.in.EmailIDs) = 2
    /\ Sent(svLast, "Email/set update")

C27_WitnessNoTrash ==
    /\ DeleteCalled
    /\ ~svLast.in.Permanent
    /\ svLast.sent = << "Mailbox/get" >>
    /\ svLast.env.doOK
    /\ Len(svLast.env.responses) >= 1
    /\ svLast.env.responses[1].type = "mailbox.GetResponse"
    /\ "trash" \notin svLast.env.responses[1].Roles

C27_WitnessPermanent ==
    /\ DeleteCalled
    /\ svLast.in.Permanent
    /\ Len(svLast.in.EmailIDs) = 2
    /\ svLast.sent = << "Email/set destroy" >>

\* ------------------------------------------------------------------------
\* email_get: the length of one body
\* ------------------------------------------------------------------------

\* the last pass of the loop wrote an email
EgWroteEmail == EgInLoop /\ egLast.item >= 0 /\ ~egLast.broke

C28_WitnessLonger ==
    /\ EgWroteEmail
    /\ egLast.written = truncationMarker
    /\ Len(egLast.body) < Len(truncationMarker)

\* ------------------------------------------------------------------------
\* TruncateBody applied twice
\* ------------------------------------------------------------------------

TbAgain == tbPc = "again"

\* where the marker of the first result begins, Len of the result if the
\* first call appended none
FirstMarkerAt ==
    IF tbRun.result = tbText /\ Len(tbText) <= tbLimit
    THEN Len(tbRun.result)
    ELSE Len(tbRun.result) - Len(truncationMarker)

\* the result is a prefix of text
IsTextPrefix(result, text) ==
    /\ Len(result) <= Len(text)
    /\ result = Prefix(text, Len(result))

\* the result is a prefix of text and then the marker
IsTextPrefixThenMarker(result, text) ==
    /\ HasSuffix(result, truncationMarker)
    /\ IsTextPrefix(Prefix(result, Len(result) - Len(truncationMarker)), text)

\* C29: TruncateBody(TruncateBody(text, a), b) is a prefix of text without a
\* marker or a prefix of text followed by one complete marker; the slice
\* and the cut of the second call end before the marker of the first; with
\* b = a the second call returns its argument.
C29_TwiceWellBehaved ==
    TbAgain =>
        /\ \/ IsTextPrefix(tbAgain.run.result, tbText)
           \/ IsTextPrefixThenMarker(tbAgain.run.result, tbText)
        /\ tbAgain.run.slice <= FirstMarkerAt
        /\ tbAgain.run.cut <= FirstMarkerAt
        /\ tbAgain.run.result # tbRun.result =>
              IsTextPrefixThenMarker(tbAgain.run.result, tbText)
        /\ tbAgain.limit = tbLimit => tbAgain.run.result = tbRun.result

\* a result with a marker was cut again, inside its text
C29_Witness ==
    /\ TbAgain
    /\ tbRun.cut > 0
    /\ tbAgain.run.cut > 0
    /\ tbAgain.run.cut < tbRun.cut
    /\ IsTextPrefixThenMarker(tbAgain.run.result, tbText)

\* the same limit twice, on a text that was truncated
C29_WitnessSameLimit ==
    /\ TbAgain
    /\ tbAgain.limit = tbLimit
    /\ tbRun.cut > 0
    /\ tbAgain.run.result = tbRun.result

\* ------------------------------------------------------------------------
\* email_get: headers and bodies against the budget
\* ------------------------------------------------------------------------

\* the characters of sb that are headers and bodies: all of them but the
\* advisory
EgWritten ==
    IF egLast.broke
    THEN Len(egSb) - Len(Advisory(egOmitted, Len(egList), egMaxChars))
    ELSE Len(egSb)

\* the header of the last included email, then the marker alone
LastHeaderThenMarker ==
    RenderHeader(egIncluded - 1, egList[egIncluded], egIn.FullHeaders) \o truncationMarker

C30_State ==
    EgInLoop =>
        /\ EgWritten <= egMaxChars + Len(truncationMarker) - 1
        /\ EgWritten > egMaxChars =>
              /\ egIncluded >= 1
              /\ HasSuffix(Prefix(egSb, EgWritten), LastHeaderThenMarker)

C30_Step ==
    egPc = "loop" =>
        /\ EgWritten > egMaxChars => (egLast'.broke /\ egIncluded' = egIncluded)
        /\ (EgWritten <= egMaxChars /\ EgWritten' > egMaxChars) =>
              /\ egIncluded' = egIncluded + 1
              /\ egLast'.written = truncationMarker
              /\ egLast'.remaining < Len(truncationMarker)
              /\ egLast'.remaining < Len(egLast'.body)

\* C30: the headers and bodies written by the loop of email_get, the
\* advisory not counted, never exceed maxChars + len(truncationMarker) - 1;
\* they exceed maxChars only when the body of the last included email was
\* replaced by the marker alone, fewer than len(truncationMarker)
\* characters having remained for it; after that no email is included.
C30_WrittenWithinBudgetPlusMarker == []C30_State /\ [][C30_Step]_vars

\* two emails were included and the second overshot by the most possible
C30_Witness ==
    /\ EgInLoop
    /\ egIncluded = 2
    /\ EgWritten = egMaxChars + Len(truncationMarker) - 1

\* the loop stopped after an overshoot
C30_WitnessStopped ==
    /\ EgInLoop
    /\ egLast.broke
    /\ EgWritten > egMaxChars
    /\ Len(egList) > egIncluded

====
